---- MODULE Spec2Model ----
(***************************************************************************)
(* Options analytics engine of stocks.ai:                                  *)
(*   services/data-api/models/options_predictor.py (class OptionsPredictor)*)
(*                                                                         *)
(* Fixed-point conventions (Python floats are modelled by scaled integers) *)
(*   money (spot, strike, premium, targets)   : 1/10000 of a currency unit *)
(*   implied volatility, delta, confidences   : 1/10000                    *)
(*   moneyness and other quotients            : exact rationals [num, den] *)
(*   wall clock                               : ticks, TicksPerDay per day *)
(***************************************************************************)
EXTENDS Integers, Sequences, FiniteSets, TLC

VARIABLES
    pc,           \* position of the caller in the specification being run
    now,          \* the wall clock read by datetime.now()
    args,         \* arguments of the call in progress
    locals,       \* local variables of the call that are observed by the properties
    ret,          \* value returned (or exception raised) by the call
    options_data, \* argument of batch_predict_options
    idx,          \* loop position of batch_predict_options (1-based)
    predictions,  \* list built by batch_predict_options
    filtered,     \* list returned by filter_best_opportunities
    predictor,    \* the OptionsPredictor instance: self.models, self.historical_accuracy
    database,     \* the tables options and option_predictions behind option_repo
    tasks         \* background tasks created with asyncio.create_task, not yet run

vars == <<pc, now, args, locals, ret, options_data, idx, predictions, filtered, predictor,
          database, tasks>>

None == [none |-> TRUE]

\* the tables of a new database: no option, no prediction
EmptyDatabase == [options |-> {}, option_predictions |-> {}]

\* lines 53-55: both dictionaries of a new instance are empty
OptionsPredictor == [models |-> <<>>, historical_accuracy |-> <<>>]

(***************************************************************************)
(* Rational comparisons: a quotient n/d of two floats is kept as the pair  *)
(* [num |-> n, den |-> d] with d > 0, and compared with a decimal literal  *)
(* p/q by cross multiplication.                                            *)
(***************************************************************************)
Rat(n, d) == [num |-> n, den |-> d]

RatGt(r, p, q) == r.num * q > p * r.den

RatLt(r, p, q) == r.num * q < p * r.den

Abs(x) == IF x < 0 THEN -x ELSE x

(***************************************************************************)
(* determine_recommendation, lines 193-240: the additive score.            *)
(* delta and implied_vol in 1/10000, moneyness a rational.                 *)
(***************************************************************************)
score_delta(delta) ==
    IF Abs(delta) > 7000 THEN 2
    ELSE IF Abs(delta) > 4000 THEN 1
    ELSE 0

\* score_time without the penalty of the short-dated contracts
score_time_no_penalty(days_to_expiry) ==
    IF days_to_expiry > 30 THEN 2
    ELSE IF days_to_expiry > 15 THEN 1
    ELSE 0

score_time(days_to_expiry) ==
    IF days_to_expiry > 30 THEN 2
    ELSE IF days_to_expiry > 15 THEN 1
    ELSE -1

\* score_liquidity with inclusive comparisons
score_liquidity_inclusive(open_interest, volume) ==
    IF open_interest >= 1000 /\ volume >= 500 THEN 2
    ELSE IF open_interest >= 100 /\ volume >= 50 THEN 1
    ELSE -1

score_liquidity(open_interest, volume) ==
    IF open_interest > 1000 /\ volume > 500 THEN 2
    ELSE IF open_interest > 100 /\ volume > 50 THEN 1
    ELSE -1

score_volatility(implied_vol) ==
    IF 2000 < implied_vol /\ implied_vol < 6000 THEN 1
    ELSE IF implied_vol > 8000 THEN -1
    ELSE 0

\* the moneyness factor with a band of 0.98..1.02 for its +2
score_moneyness_narrow(moneyness) ==
    IF RatGt(moneyness, 98, 100) /\ RatLt(moneyness, 102, 100) THEN 2
    ELSE IF RatGt(moneyness, 90, 100) /\ RatLt(moneyness, 110, 100) THEN 1
    ELSE 0

score_moneyness(moneyness) ==
    IF RatGt(moneyness, 95, 100) /\ RatLt(moneyness, 105, 100) THEN 2
    ELSE IF RatGt(moneyness, 90, 100) /\ RatLt(moneyness, 110, 100) THEN 1
    ELSE 0

score(delta, days_to_expiry, implied_vol, open_interest, volume, moneyness) ==
    score_delta(delta) + score_time(days_to_expiry)
        + score_liquidity(open_interest, volume)
        + score_volatility(implied_vol) + score_moneyness(moneyness)

(***************************************************************************)
(* determine_recommendation, lines 242-257: score -> recommendation and    *)
(* confidence (1/10000).                                                   *)
(***************************************************************************)
\* recommendation_of with the STRONG BUY threshold taken strictly
recommendation_of_strict(s) ==
    IF s > 6 THEN [recommendation |-> "STRONG BUY", confidence |-> 8500]
    ELSE IF s >= 4 THEN [recommendation |-> "BUY", confidence |-> 7000]
    ELSE IF s >= 2 THEN [recommendation |-> "HOLD", confidence |-> 6000]
    ELSE IF s >= 0 THEN [recommendation |-> "WEAK HOLD", confidence |-> 4500]
    ELSE [recommendation |-> "AVOID", confidence |-> 3000]

recommendation_of(s) ==
    IF s >= 6 THEN [recommendation |-> "STRONG BUY", confidence |-> 8500]
    ELSE IF s >= 4 THEN [recommendation |-> "BUY", confidence |-> 7000]
    ELSE IF s >= 2 THEN [recommendation |-> "HOLD", confidence |-> 6000]
    ELSE IF s >= 0 THEN [recommendation |-> "WEAK HOLD", confidence |-> 4500]
    ELSE [recommendation |-> "AVOID", confidence |-> 3000]

(***************************************************************************)
(* determine_recommendation, lines 259-281: the separate risk score.       *)
(***************************************************************************)
risk_score(days_to_expiry, implied_vol, open_interest, volume) ==
    (IF days_to_expiry < 7 THEN 2 ELSE IF days_to_expiry < 15 THEN 1 ELSE 0)
    + (IF implied_vol > 7000 THEN 2 ELSE IF implied_vol > 5000 THEN 1 ELSE 0)
    + (IF open_interest < 100 \/ volume < 50 THEN 2
       ELSE IF open_interest < 500 \/ volume < 200 THEN 1 ELSE 0)

\* the tier table with its upper threshold made exclusive
risk_level_of_above(rs) ==
    IF rs > 4 THEN "HIGH" ELSE IF rs >= 2 THEN "MEDIUM" ELSE "LOW"

risk_level_of(rs) ==
    IF rs >= 4 THEN "HIGH" ELSE IF rs >= 2 THEN "MEDIUM" ELSE "LOW"

\* line 285: the returned triple
recommendation_result(rc, risk_level) ==
    [recommendation |-> rc.recommendation, confidence |-> rc.confidence,
     risk_level |-> risk_level]

determine_recommendation(delta, days_to_expiry, implied_vol, open_interest, volume, moneyness) ==
    recommendation_result(
        recommendation_of(score(delta, days_to_expiry, implied_vol, open_interest,
                                volume, moneyness)),
        risk_level_of(risk_score(days_to_expiry, implied_vol, open_interest, volume)))

(***************************************************************************)
(* Numeric helpers.                                                        *)
(***************************************************************************)
Min(a, b) == IF a <= b THEN a ELSE b

\* str.upper() on the option_type strings that callers pass
upper(s) ==
    CASE s = "call" -> "CALL"
      [] s = "put"  -> "PUT"
      [] OTHER      -> s

\* Python round(x, ndigits) of a float: to nearest, an exact half to even.
\* n is the value in fine units, unit the number of fine units per result unit.
round(n, unit) ==
    LET q == n \div unit
        r == n % unit
    IN  IF 2 * r < unit THEN q
        ELSE IF 2 * r > unit THEN q + 1
        ELSE IF q % 2 = 0 THEN q ELSE q + 1

RECURSIVE SqrtSearch(_, _, _)
SqrtSearch(n, lo, hi) ==
    IF lo >= hi THEN lo
    ELSE LET mid == (lo + hi + 1) \div 2
         IN  IF mid * mid <= n THEN SqrtSearch(n, mid, hi)
             ELSE SqrtSearch(n, lo, mid - 1)

\* floor of the square root, n in 0 .. 46340^2
ISqrt(n) == SqrtSearch(n, 0, 46340)

\* np.sqrt(days / 365.0) in 1/100000 (1e10/365 = 27397260.3)
sqrt_year_fraction(days) == ISqrt(days * 27397260)

(***************************************************************************)
(* calculate_multiple_targets, lines 127-179.                              *)
(* current_price in 1/10000, volatility in 1/10000; returns the targets in *)
(* 1/10000 (multiples of 100: two decimals) and the confidences in 1/10000 *)
(* (multiples of 100), or the ZeroDivisionError of line 153.               *)
(***************************************************************************)
\* line 129: days_vol in 1/1000000
days_vol(volatility, days_to_expiry) ==
    (volatility * sqrt_year_fraction(days_to_expiry)) \div 1000

\* lines 132-143 and 176: current_price + current_price * days_vol * (fnum/fden),
\* rounded to 2 decimals; the product current_price * days_vol is formed in
\* 1/100000000 from the high and low parts of days_vol
\* target_price with the move subtracted from the premium
target_price_below(current_price, dv, fnum, fden) ==
    LET move == current_price * (dv \div 100) + (current_price * (dv % 100)) \div 100
    IN  100 * round(current_price * 10000 - (move * fnum) \div fden, 1000000)

target_price(current_price, dv, fnum, fden) ==
    LET move == current_price * (dv \div 100) + (current_price * (dv % 100)) \div 100
    IN  100 * round(current_price * 10000 + (move * fnum) \div fden, 1000000)

\* lines 155-169: the moneyness multipliers (in 1/100) of the three confidences
\* lines 155-169 with the two bounds included in the adjusted regions
moneyness_factors_inclusive(option_type, spot_price, strike_price) ==
    LET moneyness == Rat(spot_price, strike_price)
        itm == <<110, 105, 100>>
        otm == <<90, 85, 80>>
        atm == <<100, 100, 100>>
    IN  IF upper(option_type) = "CALL"
        THEN IF ~RatLt(moneyness, 105, 100) THEN itm
             ELSE IF ~RatGt(moneyness, 95, 100) THEN otm
             ELSE atm
        ELSE IF ~RatGt(moneyness, 95, 100) THEN itm
             ELSE IF ~RatLt(moneyness, 105, 100) THEN otm
             ELSE atm

\* lines 152-169: the factors (in 1/100) applied to the three confidences
moneyness_factors(option_type, spot_price, strike_price) ==
    LET moneyness == Rat(spot_price, strike_price)
        itm == <<110, 105, 100>>
        otm == <<90, 85, 80>>
        atm == <<100, 100, 100>>
    IN  IF upper(option_type) = "CALL"
        THEN IF RatGt(moneyness, 105, 100) THEN itm
             ELSE IF RatLt(moneyness, 95, 100) THEN otm
             ELSE atm
        ELSE IF RatLt(moneyness, 95, 100) THEN itm
             ELSE IF RatGt(moneyness, 105, 100) THEN otm
             ELSE atm

\* The double product base * (days / 30.0) * factor of lines 148-169 is not the
\* decimal it stands for.  Where the decimal is an exact half of a hundredth,
\* round(c, 2) follows the double: it lies below the half for these
\* (base, min(days, 30), factor) and above it for every other half.
double_below_half(base, days, factor) ==
    <<base, days, factor>> \in {<<85, 15, 100>>, <<85, 21, 100>>, <<65, 21, 100>>}

\* target_confidence with the time factor days / 30.0 not limited to 1.0
target_confidence_unlimited(base, days_to_expiry, factor, cap) ==
    LET d == days_to_expiry
        n == base * d * factor
        c == IF n > cap * 3000 THEN cap * 3000 ELSE n
    IN  IF 2 * (c % 3000) = 3000
        THEN 100 * (IF double_below_half(base, d, factor) THEN c \div 3000 ELSE c \div 3000 + 1)
        ELSE 100 * round(c, 3000)

\* lines 134-150, 172-177: base (1/100) * min(1, days/30) * factor (1/100),
\* capped at cap (1/100) and rounded to 2 decimals; the exact value is
\* (base * min(days, 30) * factor) / 300000
target_confidence(base, days_to_expiry, factor, cap) ==
    LET d == Min(30, days_to_expiry)
        n == base * d * factor
        c == IF n > cap * 3000 THEN cap * 3000 ELSE n
    IN  IF 2 * (c % 3000) = 3000
        THEN 100 * (IF double_below_half(base, d, factor) THEN c \div 3000 ELSE c \div 3000 + 1)
        ELSE 100 * round(c, 3000)

\* lines 131-150 and 171-179 with days_vol (dv) and the moneyness factors (f) known
targets_and_confidences(current_price, days_to_expiry, dv, f) ==
    [targets |-> << target_price(current_price, dv, 1, 2),
                    target_price(current_price, dv, 3, 4),
                    target_price(current_price, dv, 6, 5) >>,
     confidences |-> << target_confidence(85, days_to_expiry, f[1], 95),
                        target_confidence(65, days_to_expiry, f[2], 90),
                        target_confidence(40, days_to_expiry, f[3], 85) >>]

calculate_multiple_targets(current_price, volatility, days_to_expiry, option_type, spot_price, strike_price) ==
    IF strike_price = 0
    THEN [exception |-> "ZeroDivisionError"]
    ELSE targets_and_confidences(current_price, days_to_expiry,
                                 days_vol(volatility, days_to_expiry),
                                 moneyness_factors(option_type, spot_price, strike_price))

(***************************************************************************)
(* calculate_greeks, lines 57-113.  Black-Scholes in fixed point:           *)
(* spot, strike, volatility in 1/10000; the returned delta, theta, vega,    *)
(* rho in 1/10000 and gamma in 1/1000000 (the digits kept by lines 104-108).*)
(* The intermediate values carry four to six decimals, so a returned value  *)
(* can differ from the double result in its last digits.                    *)
(***************************************************************************)
RECURSIVE Pow10(_)
Pow10(k) == IF k = 0 THEN 1 ELSE 10 * Pow10(k - 1)

\* floor(a * 10^k / b) for b > 0, digit by digit
RECURSIVE Div(_, _, _)
Div(a, b, k) ==
    IF k = 0 THEN a \div b
    ELSE (a \div b) * Pow10(k) + Div((a % b) * 10, b, k - 1)

\* product of two values in 1/1000000, in 1/1000000 (b split in thousands)
Mul6(a, b) == (a * (b \div 1000)) \div 1000 + (a * (b % 1000)) \div 1000000

\* 2 * atanh(z) = 2 * z * (1 + z^2/3 + z^4/5 + z^6/7 + z^8/9), z and z2 = z^2 in 1/1000000
atanh2(z, z2) ==
    2 * Mul6(z, 1000000 + Mul6(z2, 333333 + Mul6(z2, 200000
                    + Mul6(z2, 142857 + Mul6(z2, 111111)))))

atanh2_of(z) == atanh2(z, Mul6(z, z))

\* np.log(spot_price / strike_price) in 1/1000000, as 2 * atanh((S - K) / (S + K))
log_ratio(spot_price, strike_price) ==
    atanh2_of(Div(spot_price - strike_price, spot_price + strike_price, 6))

\* scipy.stats.norm.cdf at 0, 0.05, .., 4.05 in 1/1000000
NormCdfTable ==
    <<
       500000, 519939, 539828, 559618, 579260, 598706, 617911, 636831,
       655422, 673645, 691462, 708840, 725747, 742154, 758036, 773373,
       788145, 802337, 815940, 828944, 841345, 853141, 864334, 874928,
       884930, 894350, 903200, 911492, 919243, 926471, 933193, 939429,
       945201, 950529, 955435, 959941, 964070, 967843, 971283, 974412,
       977250, 979818, 982136, 984222, 986097, 987776, 989276, 990613,
       991802, 992857, 993790, 994614, 995339, 995975, 996533, 997020,
       997445, 997814, 998134, 998411, 998650, 998856, 999032, 999184,
       999313, 999423, 999517, 999596, 999663, 999720, 999767, 999807,
       999841, 999869, 999892, 999912, 999928, 999941, 999952, 999961,
       999968, 999974
    >>

\* scipy.stats.norm.pdf at 0, 0.05, .., 4.05 in 1/1000000
NormPdfTable ==
    <<
       398942, 398444, 396953, 394479, 391043, 386668, 381388, 375240,
       368270, 360527, 352065, 342944, 333225, 322972, 312254, 301137,
       289692, 277985, 266085, 254059, 241971, 229882, 217852, 205936,
       194186, 182649, 171369, 160383, 149727, 139431, 129518, 120009,
       110921, 102265, 94049, 86277, 78950, 72065, 65616, 59595,
       53991, 48792, 43984, 39550, 35475, 31740, 28327, 25218,
       22395, 19837, 17528, 15449, 13583, 11912, 10421, 9094,
       7915, 6873, 5953, 5143, 4432, 3810, 3267, 2794,
       2384, 2029, 1723, 1459, 1232, 1038, 873, 732,
       612, 510, 425, 353, 292, 241, 199, 163,
       134, 109
    >>

\* linear interpolation in a table of step 0.05; x >= 0 in 1/10000, x < 40000
Interpolate(table, x) ==
    LET i == x \div 500
        f == x % 500
    IN  table[i + 1] + ((table[i + 2] - table[i + 1]) * f) \div 500

\* norm.cdf(x) in 1/1000000, x in 1/10000 (x beyond +-4, or infinite: 1 or 0)
norm_cdf(x) ==
    IF x >= 40000 THEN 1000000
    ELSE IF x <= -40000 THEN 0
    ELSE IF x >= 0 THEN Interpolate(NormCdfTable, x)
    ELSE 1000000 - Interpolate(NormCdfTable, -x)

\* norm.pdf(x) in 1/1000000, x in 1/10000
norm_pdf(x) ==
    IF Abs(x) >= 40000 THEN 0 ELSE Interpolate(NormPdfTable, Abs(x))

\* the value d1 takes when line 79 divides by zero or takes log(0): +-inf
Infinity == 1000000000

ZeroGreeks == [delta |-> 0, gamma |-> 0, theta |-> 0, vega |-> 0, rho |-> 0]

\* lines 98-101 and 108: rho, from strike * T * exp(-rT) and the cdf of +-d2
rho_of(call, KT, N2) ==
    IF call THEN round((KT * (N2 \div 1000)) \div 1000, 100)
    ELSE -round((KT * (N2 \div 1000)) \div 1000, 100)

\* lines 84-89 and 106: theta per day, from (S * pdf * sigma) / (2 sqrt T) and
\* r * K * exp(-rT) * cdf(+-d2)
theta_of(call, decay, carry) ==
    IF call THEN round(-decay - carry, 365) ELSE round(-decay + carry, 365)

\* lines 82-109: the five values from the Black-Scholes intermediates.
\* Sphi = spot * pdf(d1) in 1/10000, N1 and N2 the cdf of +-d1 and +-d2,
\* rK = r * strike * exp(-rT) and KT = strike * T * exp(-rT) in 1/10000.
\* gamma is 0/0 = nan when spot * sigma * sqrt(T) is 0.
greeks_of(spot_price, volatility, call, sqrtT, sst, pdf, Sphi, N1, N2, rK, KT) ==
    [delta |-> IF call THEN round(N1, 100) ELSE -round(N1, 100),
     gamma |-> IF spot_price = 0 \/ sst = 0 THEN "nan"
               ELSE round(Div(Div(pdf, spot_price, 8), sst, 3), 10),
     theta |-> theta_of(call, Div(Sphi * (volatility \div 100), 2 * sqrtT, 5) \div 100,
                        (rK * (N2 \div 100)) \div 10000),
     vega  |-> round((Sphi * (sqrtT \div 100)) \div 1000, 100),
     rho   |-> rho_of(call, KT, N2)]

\* lines 82-101 once d1, d2, pdf(d1) and disc = exp(-rT) (1/1000000) are known
black_scholes_values(spot_price, strike_price, time_to_expiry, volatility, call, sqrtT, sst, d1, d2, pdf, disc) ==
    greeks_of(spot_price, volatility, call, sqrtT, sst, pdf,
              ((spot_price \div 100) * (pdf \div 100)) \div 100,
              IF call THEN norm_cdf(d1) ELSE norm_cdf(-d1),
              IF call THEN norm_cdf(d2) ELSE norm_cdf(-d2),
              ((strike_price \div 20) * (disc \div 100)) \div 10000,
              (((strike_price * time_to_expiry) \div 365) * (disc \div 1000)) \div 1000)

\* np.exp(-risk_free_rate * T) in 1/1000000, rT = 0.05 * days / 365 in 1/1000000
discount(rT) == 1000000 - rT + (rT * rT) \div 2000000

\* line 80: d2 = d1 - sigma * sqrt(T); an infinite d1 stays infinite
d2_of(d1, sst) == IF Abs(d1) = Infinity THEN d1 ELSE d1 - sst \div 100

\* line 79: the quotient; num is the numerator and sst = sigma * sqrt(T), both in
\* 1/1000000.  log(0) = -inf, and a division by the double 0.0 gives +-inf
\* (numpy warns, it does not raise)
d1_of(spot_price, num, sst) ==
    IF spot_price = 0 THEN -Infinity
    ELSE IF sst = 0 THEN (IF num > 0 THEN Infinity ELSE -Infinity)
    ELSE Div(num, sst, 4)

\* line 79: the numerator ln(S/K) + (r + sigma^2 / 2) * T in 1/1000000
d1_numerator(spot_price, strike_price, time_to_expiry, volatility) ==
    IF spot_price = 0 THEN 0
    ELSE log_ratio(spot_price, strike_price)
         + ((50000 + (volatility * volatility) \div 200) * time_to_expiry) \div 365

black_scholes_d1(spot_price, strike_price, time_to_expiry, volatility, call, sqrtT, sst, d1) ==
    black_scholes_values(spot_price, strike_price, time_to_expiry, volatility, call,
                         sqrtT, sst, d1, d2_of(d1, sst), norm_pdf(d1),
                         discount((50000 * time_to_expiry) \div 365))

black_scholes_sst(spot_price, strike_price, time_to_expiry, volatility, call, sqrtT, sst) ==
    black_scholes_d1(spot_price, strike_price, time_to_expiry, volatility, call, sqrtT, sst,
                     d1_of(spot_price,
                           d1_numerator(spot_price, strike_price, time_to_expiry, volatility),
                           sst))

black_scholes_sqrtT(spot_price, strike_price, time_to_expiry, volatility, call, sqrtT) ==
    black_scholes_sst(spot_price, strike_price, time_to_expiry, volatility, call, sqrtT,
                      (volatility * sqrtT) \div 1000)

\* lines 78-109, for time_to_expiry > 0, strike_price > 0, spot_price >= 0 and
\* volatility >= 0.  With spot_price = 0 (log(0) = -inf) or volatility = 0
\* (division by the double 0.0) numpy gives d1 = d2 = +-inf and gamma = nan.
black_scholes(spot_price, strike_price, time_to_expiry, volatility, option_type) ==
    black_scholes_sqrtT(spot_price, strike_price, time_to_expiry, volatility,
                        upper(option_type) = "CALL", sqrt_year_fraction(time_to_expiry))

\* line 75 with a guard that lets T = 0 through, the values at T = 0 being the
\* limits of delta (1 or 0 for a call, -1 or 0 for a put)
calculate_greeks_before_expiry(spot_price, strike_price, time_to_expiry, volatility, option_type) ==
    IF time_to_expiry < 0 \/ strike_price = 0
    THEN ZeroGreeks
    ELSE IF time_to_expiry = 0
    THEN [ZeroGreeks EXCEPT !.delta =
              IF upper(option_type) = "CALL"
              THEN (IF spot_price > strike_price THEN 10000 ELSE 0)
              ELSE (IF spot_price < strike_price THEN -10000 ELSE 0)]
    ELSE black_scholes(spot_price, strike_price, time_to_expiry, volatility, option_type)

\* the assignments of lines 73-101 that one call evaluates: T always, nothing
\* else when T <= 0 (return of line 76); the division of line 79 raises for a
\* zero strike before d1 is bound
calculate_greeks_evaluated(spot_price, strike_price, time_to_expiry) ==
    IF time_to_expiry <= 0 THEN {"T"}
    ELSE IF strike_price = 0 THEN {"T", "ZeroDivisionError"}
    ELSE {"T", "d1", "d2", "delta", "theta", "gamma", "vega", "rho"}

\* the values sigma * sqrt(T) (1/1000000) by which lines 79 and 92 divide in one
\* call: none when line 76 returns or when spot_price / strike_price raises
\* first, else the one product volatility * np.sqrt(T), which no statement
\* compares with zero
calculate_greeks_divisors(spot_price, strike_price, time_to_expiry, volatility) ==
    IF time_to_expiry <= 0 \/ strike_price = 0 THEN {}
    ELSE {(volatility * sqrt_year_fraction(time_to_expiry)) \div 1000}

calculate_greeks(spot_price, strike_price, time_to_expiry, volatility, option_type) ==
    IF time_to_expiry <= 0
    THEN ZeroGreeks
    ELSE IF strike_price = 0
    THEN ZeroGreeks   \* ZeroDivisionError of line 79, caught at line 111
    ELSE black_scholes(spot_price, strike_price, time_to_expiry, volatility, option_type)

(***************************************************************************)
(* predict_option, lines 287-405.  A contract is the record of its keyword *)
(* arguments; expiration_date is the day number of the 'YYYY-MM-DD' string *)
(* and strptime turns it into midnight of that day.  The wall clock counts *)
(* ticks, TicksPerDay to the day.                                          *)
(***************************************************************************)
TicksPerDay == 2

\* lines 320-321: (expiry_dt - datetime.now()).days, timedelta.days being the floor
days_between(expiration_date, clock) ==
    (expiration_date * TicksPerDay - clock) \div TicksPerDay

\* line 323 with a bound that lets the day of expiry itself pass
expired_before_yesterday(days_to_expiry) == days_to_expiry < -1

\* line 323 with a bound that already refuses the day of expiry
expired_on_the_day(days_to_expiry) == days_to_expiry <= 0

\* line 323
expired(days_to_expiry) == days_to_expiry < 0

\* lines 360 and 364 without the factor 100: a fraction instead of a percentage
max_profit_potential_fraction(target3, option_price) ==
    IF option_price = 0 THEN "nan"
    ELSE IF option_price > 0 THEN round((target3 - option_price) * 100, option_price)
    ELSE round((option_price - target3) * 100, -option_price)

\* lines 359-366 and 395: (targets[2] - option_price) / option_price * 100 rounded
\* to 2 decimals, in 1/100 of a percent; numpy gives nan for the division 0.0 / 0
max_profit_potential(target3, option_price) ==
    IF option_price = 0 THEN "nan"
    ELSE IF option_price > 0 THEN round((target3 - option_price) * 10000, option_price)
    ELSE round((option_price - target3) * 10000, -option_price)

\* lines 362 and 366 with the premium added for either kind
breakeven_price_added(option_type, strike_price, option_price) ==
    100 * round(strike_price + option_price, 100)

\* lines 359-366 and 397: rounded to 2 decimals, in 1/10000
breakeven_price(option_type, strike_price, option_price) ==
    IF upper(option_type) = "CALL"
    THEN 100 * round(strike_price + option_price, 100)
    ELSE 100 * round(strike_price - option_price, 100)

\* lines 345-366 with the Greeks, the targets and the recommendation known
predict_option_frame(c, days_to_expiry, greeks, tc, rec) ==
    [days_to_expiry |-> days_to_expiry,
     computed |-> {"greeks", "targets", "recommendation"},
     greeks |-> greeks,
     targets |-> tc.targets,
     confidences |-> tc.confidences,
     recommendation |-> rec.recommendation,
     overall_confidence |-> rec.confidence,
     risk_level |-> rec.risk_level,
     max_profit_potential |-> max_profit_potential(tc.targets[3], c.option_price),
     max_loss_potential |-> -10000,
     breakeven_price |-> breakeven_price(c.option_type, c.strike_price, c.option_price)]

\* lines 335-356: calculate_multiple_targets raises at line 153 for a zero
\* strike; otherwise the recommendation is determined from greeks['delta']
predict_option_scored(c, days_to_expiry, greeks, tc) ==
    IF "exception" \in DOMAIN tc
    THEN [exception |-> tc.exception, message |-> "float division by zero",
          days_to_expiry |-> days_to_expiry, computed |-> {"greeks"}]
    ELSE predict_option_frame(c, days_to_expiry, greeks, tc,
             determine_recommendation(greeks.delta, days_to_expiry, c.implied_volatility,
                                      c.open_interest, c.volume,
                                      Rat(c.spot_price, c.strike_price)))

\* lines 323-343: the expiry check, then the Greeks and the targets
predict_option_checked(c, days_to_expiry) ==
    IF expired(days_to_expiry)
    THEN [exception |-> "ValueError", message |-> "Option has already expired",
          days_to_expiry |-> days_to_expiry, computed |-> {}]
    ELSE predict_option_scored(c, days_to_expiry,
             calculate_greeks(c.spot_price, c.strike_price, days_to_expiry,
                              c.implied_volatility, c.option_type),
             calculate_multiple_targets(c.option_price, c.implied_volatility,
                                        days_to_expiry, c.option_type,
                                        c.spot_price, c.strike_price))

\* lines 318-366: everything predict_option computes before it builds the
\* OptionPrediction, with the clock value read at line 321.  "computed" lists
\* the stages that ran; an exception leaves through lines 403-405 (re-raised).
predict_option_body(c, clock) ==
    predict_option_checked(c, days_between(c.expiration_date, clock))

\* lines 368-399: the OptionPrediction, with the clock value read at line 398
OptionPrediction(c, f, clock) ==
    [symbol |-> c.symbol,
     company |-> c.company,
     market |-> c.market,
     option_type |-> upper(c.option_type),
     entry_price |-> c.option_price,
     current_price |-> c.option_price,
     strike_price |-> c.strike_price,
     expiration_date |-> c.expiration_date,
     days_to_expiry |-> f.days_to_expiry,
     target1 |-> f.targets[1],
     target1_confidence |-> f.confidences[1],
     target2 |-> f.targets[2],
     target2_confidence |-> f.confidences[2],
     target3 |-> f.targets[3],
     target3_confidence |-> f.confidences[3],
     implied_volatility |-> c.implied_volatility,
     delta |-> f.greeks.delta,
     gamma |-> f.greeks.gamma,
     theta |-> f.greeks.theta,
     vega |-> f.greeks.vega,
     open_interest |-> c.open_interest,
     volume |-> c.volume,
     recommendation |-> f.recommendation,
     overall_confidence |-> f.overall_confidence,
     risk_level |-> f.risk_level,
     max_profit_potential |-> f.max_profit_potential,
     max_loss_potential |-> f.max_loss_potential,
     breakeven_price |-> f.breakeven_price,
     timestamp |-> clock]

(***************************************************************************)
(* batch_predict_options, lines 407-427, and filter_best_opportunities,    *)
(* lines 429-457.                                                          *)
(***************************************************************************)
\* lines 287-298: the keyword parameters of predict_option, none with a default
predict_option_parameters ==
    {"symbol", "company", "market", "spot_price", "strike_price", "option_price",
     "expiration_date", "option_type", "implied_volatility", "open_interest", "volume"}

\* line 421: predict_option(**option_data).  A dictionary that lacks a
\* parameter or holds another key raises TypeError before the body runs.
predict_option_call(option_data, clock) ==
    IF DOMAIN option_data # predict_option_parameters
    THEN [exception |-> "TypeError", message |-> "predict_option() got wrong keyword arguments",
          computed |-> {}]
    ELSE predict_option_body(option_data, clock)

\* the loop leaving at the first exception instead of going on
after_exception_break(i, n) == n + 1

\* lines 423-425: the exception is logged and the loop continues with the next record
after_exception(i, n) == i + 1

\* dict.get that answers LOW for every key it does not hold
risk_levels_get_lowest(key, default) ==
    CASE key = "LOW"    -> 1
      [] key = "MEDIUM" -> 2
      [] key = "HIGH"   -> 3
      [] OTHER          -> 1

\* line 444 with dict.get: the rank of a risk string, or the default
risk_levels_get(key, default) ==
    CASE key = "LOW"    -> 1
      [] key = "MEDIUM" -> 2
      [] key = "HIGH"   -> 3
      [] OTHER          -> default

\* the condition of lines 449-451 with the confidence bound taken strictly
keeps_strict(pred, min_confidence, max_risk) ==
    /\ pred.overall_confidence > min_confidence
    /\ risk_levels_get(pred.risk_level, 3) <= risk_levels_get(max_risk, 2)
    /\ pred.recommendation \in {"BUY", "STRONG BUY"}

\* lines 445 and 449-451: the condition of the list comprehension
keeps(pred, min_confidence, max_risk) ==
    /\ pred.overall_confidence >= min_confidence
    /\ risk_levels_get(pred.risk_level, 3) <= risk_levels_get(max_risk, 2)
    /\ pred.recommendation \in {"BUY", "STRONG BUY"}

\* insertion in front of the entries of equal confidence (ties come out reversed)
insert_before_equal(sorted, pred) ==
    LET k == Cardinality({i \in 1..Len(sorted) :
                             sorted[i].overall_confidence > pred.overall_confidence})
    IN  SubSeq(sorted, 1, k) \o <<pred>> \o SubSeq(sorted, k + 1, Len(sorted))

\* one insertion of the stable descending sort: pred goes behind every entry
\* whose confidence is greater or equal
insert_by_confidence(sorted, pred) ==
    LET k == Cardinality({i \in 1..Len(sorted) :
                             sorted[i].overall_confidence >= pred.overall_confidence})
    IN  SubSeq(sorted, 1, k) \o <<pred>> \o SubSeq(sorted, k + 1, Len(sorted))

\* line 455: list.sort(key=overall_confidence, reverse=True), which is stable
RECURSIVE sort_by_confidence(_)
sort_by_confidence(list) ==
    IF list = <<>> THEN <<>>
    ELSE insert_by_confidence(sort_by_confidence(SubSeq(list, 1, Len(list) - 1)),
                              list[Len(list)])

filter_best_opportunities(preds, min_confidence, max_risk) ==
    LET kept(pred) == keeps(pred, min_confidence, max_risk)
    IN  sort_by_confidence(SelectSeq(preds, kept))

(***************************************************************************)
(* SpecScore: determine_recommendation applied to every combination of     *)
(* inputs around the thresholds of its tables.                             *)
(***************************************************************************)
ScoreDeltas == {-8000, 0, 4000, 4001, 7000, 7001}

ScoreDays == {0, 6, 7, 14, 15, 16, 30, 31}

ScoreVols == {2000, 2001, 5000, 5001, 5999, 6000, 7000, 7001, 8000, 8001}

ScoreOpenInterests == {99, 100, 101, 499, 500, 1000, 1001}

ScoreVolumes == {49, 50, 51, 199, 200, 500, 501}

ScoreMoneyness == {Rat(n, 10000) : n \in {9000, 9001, 9500, 9501, 10000, 10499, 10500, 10999, 11000}}

ScoreArgs ==
    [delta : ScoreDeltas, days_to_expiry : ScoreDays, implied_vol : ScoreVols,
     open_interest : ScoreOpenInterests, volume : ScoreVolumes, moneyness : ScoreMoneyness]

InitScore ==
    /\ pc = "determine_recommendation"
    /\ args \in ScoreArgs
    /\ now = 0
    /\ locals = None
    /\ ret = None
    /\ options_data = <<>>
    /\ idx = 0
    /\ predictions = <<>>
    /\ filtered = <<>>
    /\ predictor = OptionsPredictor
    /\ database = EmptyDatabase
    /\ tasks = <<>>

\* one call of determine_recommendation, lines 181-285
DetermineRecommendation ==
    /\ pc = "determine_recommendation"
    /\ locals' = [score |-> score(args.delta, args.days_to_expiry, args.implied_vol,
                                  args.open_interest, args.volume, args.moneyness),
                  risk_score |-> risk_score(args.days_to_expiry, args.implied_vol,
                                            args.open_interest, args.volume)]
    /\ ret' = determine_recommendation(args.delta, args.days_to_expiry, args.implied_vol,
                                       args.open_interest, args.volume, args.moneyness)
    /\ pc' = "returned"
    /\ UNCHANGED <<now, args, options_data, idx, predictions, filtered, predictor, database, tasks>>

NextScore == DetermineRecommendation

SpecScore == InitScore /\ [][NextScore]_vars

\* C1: the recommendation/confidence pair returned by the scorer is the one the
\* threshold table gives for the total score, thresholds taken highest first:
\* 6..9 STRONG BUY/0.85, 4..5 BUY/0.70, 2..3 HOLD/0.60, 0..1 WEAK HOLD/0.45,
\* below 0 AVOID/0.30; every input combination gets exactly one of these pairs.
C1_ScoreTable ==
    (pc = "returned" /\ "score" \in DOMAIN locals) =>
        LET pair == <<ret.recommendation, ret.confidence>>
        IN  /\ pair \in {<<"STRONG BUY", 8500>>, <<"BUY", 7000>>, <<"HOLD", 6000>>,
                         <<"WEAK HOLD", 4500>>, <<"AVOID", 3000>>}
            /\ (locals.score \in {6, 7, 8, 9} <=> pair = <<"STRONG BUY", 8500>>)
            /\ (locals.score \in {4, 5} <=> pair = <<"BUY", 7000>>)
            /\ (locals.score \in {2, 3} <=> pair = <<"HOLD", 6000>>)
            /\ (locals.score \in {0, 1} <=> pair = <<"WEAK HOLD", 4500>>)
            /\ (locals.score \in {-3, -2, -1} <=> pair = <<"AVOID", 3000>>)

\* a call that returned with the boundary score 6
C1_Witness ==
    /\ pc = "returned"
    /\ "score" \in DOMAIN locals
    /\ locals.score = 6
    /\ ret.recommendation = "STRONG BUY"

\* C2: the score is the sum of the five factor contributions, each from its
\* own strict comparisons, and lies in -3..9.
C2_ScoreIsSumOfFactors ==
    (pc = "returned" /\ "score" \in DOMAIN locals) =>
        LET momentum  == CASE Abs(args.delta) > 7000 -> 2
                           [] Abs(args.delta) <= 7000 /\ Abs(args.delta) > 4000 -> 1
                           [] Abs(args.delta) <= 4000 -> 0
            cushion   == CASE args.days_to_expiry >= 31 -> 2
                           [] args.days_to_expiry \in 16..30 -> 1
                           [] args.days_to_expiry <= 15 -> -1
            liquidity == CASE args.open_interest >= 1001 /\ args.volume >= 501 -> 2
                           [] ~(args.open_interest >= 1001 /\ args.volume >= 501)
                              /\ args.open_interest >= 101 /\ args.volume >= 51 -> 1
                           [] args.open_interest <= 100 \/ args.volume <= 50 -> -1
            ivol      == CASE args.implied_vol \in 2001..5999 -> 1
                           [] args.implied_vol >= 8001 -> -1
                           [] args.implied_vol <= 2000 \/ args.implied_vol \in 6000..8000 -> 0
            m         == args.moneyness.num
            money     == CASE m \in 9501..10499 -> 2
                           [] m \in 9001..9500 \/ m \in 10500..10999 -> 1
                           [] m <= 9000 \/ m >= 11000 -> 0
        IN  /\ args.moneyness.den = 10000
            /\ locals.score = momentum + cushion + liquidity + ivol + money
            /\ locals.score \in -3..9

\* a call whose five factors all take their highest value
C2_Witness ==
    /\ pc = "returned"
    /\ "score" \in DOMAIN locals
    /\ locals.score = 9
    /\ Abs(args.delta) > 7000
    /\ args.days_to_expiry > 30

\* C11: the risk tier comes from a score of its own, the sum of time urgency
\* (2 below 7 days, 1 below 15), volatility (2 above 0.7, 1 above 0.5) and
\* illiquidity (2 if open interest < 100 or volume < 50, 1 if open interest
\* < 500 or volume < 200); >= 4 is HIGH, >= 2 is MEDIUM, else LOW; delta and
\* moneyness have no influence on the tier.
C11_RiskTier ==
    (pc = "returned" /\ "risk_score" \in DOMAIN locals) =>
        LET urgency     == CASE args.days_to_expiry <= 6 -> 2
                             [] args.days_to_expiry \in 7..14 -> 1
                             [] args.days_to_expiry >= 15 -> 0
            volatility  == CASE args.implied_vol >= 7001 -> 2
                             [] args.implied_vol \in 5001..7000 -> 1
                             [] args.implied_vol <= 5000 -> 0
            illiquidity == CASE args.open_interest <= 99 \/ args.volume <= 49 -> 2
                             [] args.open_interest >= 100 /\ args.volume >= 50
                                /\ (args.open_interest <= 499 \/ args.volume <= 199) -> 1
                             [] args.open_interest >= 500 /\ args.volume >= 200 -> 0
            total       == urgency + volatility + illiquidity
        IN  /\ locals.risk_score = total
            /\ total \in 0..6
            /\ (total \in 4..6 <=> ret.risk_level = "HIGH")
            /\ (total \in 2..3 <=> ret.risk_level = "MEDIUM")
            /\ (total \in 0..1 <=> ret.risk_level = "LOW")
            /\ \A d \in ScoreDeltas, m \in ScoreMoneyness :
                   determine_recommendation(d, args.days_to_expiry, args.implied_vol,
                                            args.open_interest, args.volume,
                                            m).risk_level = ret.risk_level

\* a call whose three components add up to the boundary risk score 4, with a
\* recommendation score that is not the lowest
C11_Witness ==
    /\ pc = "returned"
    /\ "risk_score" \in DOMAIN locals
    /\ locals.risk_score = 4
    /\ ret.risk_level = "HIGH"
    /\ args.days_to_expiry \in 7..14
    /\ args.implied_vol \in 5001..7000
    /\ locals.score >= 2

\* C22: the scorer never returns STRONG BUY together with the risk tier HIGH: a
\* recommendation score >= 6 implies a risk score <= 3, for every delta,
\* days_to_expiry, implied_vol, open_interest, volume and moneyness; BUY
\* together with HIGH is returned (long-dated, deep delta, at the money, very
\* volatile and illiquid).
C22_StrongBuyNeverHighRisk ==
    /\ (pc = "returned" /\ "risk_score" \in DOMAIN locals) =>
           /\ locals.score >= 6 => locals.risk_score <= 3
           /\ ~(ret.recommendation = "STRONG BUY" /\ ret.risk_level = "HIGH")
    /\ LET r == determine_recommendation(7001, 31, 8001, 99, 49, Rat(10000, 10000))
       IN  r.recommendation = "BUY" /\ r.risk_level = "HIGH"

\* a STRONG BUY at the largest risk score it can have: expiring within a week
\* with an implied volatility between 0.5 and 0.6
C22_Witness ==
    /\ pc = "returned"
    /\ "risk_score" \in DOMAIN locals
    /\ ret.recommendation = "STRONG BUY"
    /\ locals.score = 6
    /\ locals.risk_score = 3
    /\ ret.risk_level = "MEDIUM"
    /\ args.days_to_expiry < 7

(***************************************************************************)
(* SpecGreeks: calculate_greeks called directly, with times to expiry on   *)
(* both sides of 0.                                                        *)
(***************************************************************************)
GreeksSpots == {0, 1000000, 1855000}

GreeksStrikes == {0, 1000000, 1900000}

GreeksTimes == {-3, -1, 0, 1, 37}

GreeksVols == {0, 3500, 8100}

GreeksArgs ==
    [spot_price : GreeksSpots, strike_price : GreeksStrikes,
     time_to_expiry : GreeksTimes, volatility : GreeksVols,
     option_type : {"CALL", "PUT", "call"}]

InitGreeks ==
    /\ pc = "calculate_greeks"
    /\ args \in GreeksArgs
    /\ now = 0
    /\ locals = None
    /\ ret = None
    /\ options_data = <<>>
    /\ idx = 0
    /\ predictions = <<>>
    /\ filtered = <<>>
    /\ predictor = OptionsPredictor
    /\ database = EmptyDatabase
    /\ tasks = <<>>

\* one call of calculate_greeks, lines 57-113
CalculateGreeks ==
    /\ pc = "calculate_greeks"
    /\ locals' = [evaluated |-> calculate_greeks_evaluated(args.spot_price,
                                    args.strike_price, args.time_to_expiry),
                  divisors |-> calculate_greeks_divisors(args.spot_price,
                                    args.strike_price, args.time_to_expiry,
                                    args.volatility)]
    /\ ret' = calculate_greeks(args.spot_price, args.strike_price, args.time_to_expiry,
                               args.volatility, args.option_type)
    /\ pc' = "returned"
    /\ UNCHANGED <<now, args, options_data, idx, predictions, filtered, predictor, database, tasks>>

NextGreeks == CalculateGreeks

SpecGreeks == InitGreeks /\ [][NextGreeks]_vars

\* C14: whenever T = time_to_expiry / 365 <= 0, calculate_greeks returns delta =
\* gamma = theta = vega = rho = 0, for calls and puts and any spot, strike and
\* volatility, and evaluates neither d1 nor d2.
C14_ZeroGreeksAtOrAfterExpiry ==
    (pc = "returned" /\ "evaluated" \in DOMAIN locals /\ args.time_to_expiry <= 0) =>
        /\ DOMAIN ret = {"delta", "gamma", "theta", "vega", "rho"}
        /\ \A g \in DOMAIN ret : ret[g] = 0
        /\ locals.evaluated \cap {"d1", "d2"} = {}
        /\ "ZeroDivisionError" \notin locals.evaluated

\* an out-of-the-money put with T = 0 has been evaluated
C14_Witness ==
    /\ pc = "returned"
    /\ "evaluated" \in DOMAIN locals
    /\ args.time_to_expiry = 0
    /\ args.option_type = "PUT"
    /\ args.spot_price < args.strike_price
    /\ args.volatility > 0
    /\ ret = ZeroGreeks

\* C21: calculate_greeks never divides by a zero sigma * sqrt(T): a call either
\* returns at the T <= 0 guard or divides (for d1 and for gamma) by a
\* sigma * sqrt(T) different from zero.
C21_NoDivisionByZeroSigmaSqrtT ==
    (pc = "returned" /\ "divisors" \in DOMAIN locals) => 0 \notin locals.divisors

(***************************************************************************)
(* SpecTargets: calculate_multiple_targets applied to premiums from one    *)
(* cent upwards, every horizon 0..MaxDays, both kinds and the five         *)
(* moneyness regions (a zero strike raises at line 153).                   *)
(***************************************************************************)
MaxDays == 45

TargetPrices == {100, 149, 10000, 35000}

TargetVols == {2000, 3500, 10000}

TargetTypes == {"CALL", "PUT", "call"}

\* <<spot_price, strike_price>>
TargetSpotStrike ==
    {<<1000000, 1000000>>, <<1060000, 1000000>>, <<940000, 1000000>>,
     <<1050000, 1000000>>, <<950000, 1000000>>,
     <<1855000, 1900000>>, <<1000000, 0>>}

TargetArgs ==
    [current_price : TargetPrices, volatility : TargetVols, days_to_expiry : 0..MaxDays,
     option_type : TargetTypes, spot_strike : TargetSpotStrike]

InitTargets ==
    /\ pc = "calculate_multiple_targets"
    /\ args \in TargetArgs
    /\ now = 0
    /\ locals = None
    /\ ret = None
    /\ options_data = <<>>
    /\ idx = 0
    /\ predictions = <<>>
    /\ filtered = <<>>
    /\ predictor = OptionsPredictor
    /\ database = EmptyDatabase
    /\ tasks = <<>>

\* one call of calculate_multiple_targets, lines 115-179
CalculateMultipleTargets ==
    /\ pc = "calculate_multiple_targets"
    /\ ret' = calculate_multiple_targets(args.current_price, args.volatility, args.days_to_expiry,
                                         args.option_type, args.spot_strike[1], args.spot_strike[2])
    /\ pc' = "returned"
    /\ UNCHANGED <<now, args, locals, options_data, idx, predictions, filtered, predictor, database, tasks>>

NextTargets == CalculateMultipleTargets

SpecTargets == InitTargets /\ [][NextTargets]_vars

\* the call returned a (targets, confidences) pair for valid inputs
TargetsReturned ==
    /\ pc = "returned"
    /\ "targets" \in DOMAIN ret
    /\ args.current_price > 0
    /\ args.volatility > 0
    /\ args.days_to_expiry >= 0

\* C5: for valid inputs the confidences are non-increasing from target 1 to
\* target 3 and each lies in (0, 0.95], the horizon of 0 days included.
C5_ConfidencesOrderedAndPositive ==
    TargetsReturned =>
        /\ ret.confidences[1] >= ret.confidences[2]
        /\ ret.confidences[2] >= ret.confidences[3]
        /\ \A k \in 1..3 : ret.confidences[k] > 0 /\ ret.confidences[k] <= 9500

\* C23: for every premium > 0 (up to 4 fraction digits), volatility > 0 and
\* days_to_expiry >= 0, none of the three targets rounded to 2 decimals lies
\* below the premium, and so max_profit_potential >= 0.
C23_TargetsNotBelowPremium ==
    TargetsReturned =>
        /\ \A k \in 1..3 : ret.targets[k] >= args.current_price
        /\ max_profit_potential(ret.targets[3], args.current_price) >= 0

\* the confidence of target k before the min() of lines 172-174, in 1/300000
UncappedConfidence(k) ==
    <<85, 65, 40>>[k] * Min(30, args.days_to_expiry)
        * moneyness_factors(args.option_type, args.spot_strike[1], args.spot_strike[2])[k]

\* C25: the caps of lines 172-174 never change a value: for every
\* days_to_expiry >= 0, kind and moneyness the confidences before capping are
\* at most 0.935, 0.6825 and 0.40, below the caps 0.95, 0.90 and 0.85, and the
\* reported confidences are at most 0.94, 0.68 and 0.40.
C25_CapsNeverBind ==
    TargetsReturned =>
        /\ UncappedConfidence(1) <= 280500 /\ UncappedConfidence(1) < 95 * 3000
        /\ UncappedConfidence(2) <= 204750 /\ UncappedConfidence(2) < 90 * 3000
        /\ UncappedConfidence(3) <= 120000 /\ UncappedConfidence(3) < 85 * 3000
        /\ ret.confidences[1] <= 9400
        /\ ret.confidences[2] <= 6800
        /\ ret.confidences[3] <= 4000

\* an in-the-money put with more than 30 days left: 0.935, 0.6825 and 0.40
\* before capping, reported as 0.94, 0.68 and 0.40
C25_Witness ==
    /\ TargetsReturned
    /\ args.option_type = "PUT"
    /\ args.days_to_expiry > 30
    /\ UncappedConfidence(1) = 280500
    /\ UncappedConfidence(2) = 204750
    /\ ret.confidences = <<9400, 6800, 4000>>

\* C6: for premium > 0, volatility > 0 and days_to_expiry > 0 the three
\* rounded targets are strictly increasing.
C6_TargetsStrictlyIncreasing ==
    (TargetsReturned /\ args.days_to_expiry > 0) =>
        /\ ret.targets[1] < ret.targets[2]
        /\ ret.targets[2] < ret.targets[3]

\* C6 as amended: for premium > 0, volatility > 0 and days_to_expiry > 0 the
\* three rounded targets never decrease from target 1 to target 3.
C6_TargetsNonDecreasing ==
    (TargetsReturned /\ args.days_to_expiry > 0) =>
        /\ ret.targets[1] <= ret.targets[2]
        /\ ret.targets[2] <= ret.targets[3]

\* a one-cent premium whose three targets round to the same cent
C6_Witness ==
    /\ TargetsReturned
    /\ args.days_to_expiry > 0
    /\ args.current_price = 100
    /\ ret.targets[1] = ret.targets[2]
    /\ ret.targets[2] = ret.targets[3]

\* C20: the confidences are the bases 0.85 / 0.65 / 0.40 times min(1, days/30),
\* times the moneyness factors (CALL: above 1.05 -> 1.10 / 1.05 / 1, below 0.95
\* -> 0.90 / 0.85 / 0.80; PUT: the two regions exchanged; nothing at exactly
\* 0.95 or 1.05 or in between), capped at 0.95 / 0.90 / 0.85 and rounded to 2
\* decimals.
C20_ConfidencePipeline ==
    (pc = "returned" /\ "confidences" \in DOMAIN ret) =>
        LET spot   == args.spot_strike[1]
            strike == args.spot_strike[2]
            call   == args.option_type \in {"CALL", "call"}
            above  == 100 * spot > 105 * strike
            below  == 100 * spot < 95 * strike
            boost  == IF call THEN above ELSE below
            cut    == IF call THEN below ELSE above
            base   == <<85, 65, 40>>
            cap    == <<95, 90, 85>>
            factor == CASE boost -> <<110, 105, 100>>
                        [] cut -> <<90, 85, 80>>
                        [] ~above /\ ~below -> <<100, 100, 100>>
            days   == IF args.days_to_expiry < 30 THEN args.days_to_expiry ELSE 30
            \* stage k, in 1/3000 of a hundredth
            staged(k) == base[k] * days * factor[k]
            capped(k) == IF staged(k) > 3000 * cap[k] THEN 3000 * cap[k] ELSE staged(k)
        IN  \A k \in 1..3 :
                /\ ret.confidences[k] % 100 = 0
                /\ 2 * Abs(30 * ret.confidences[k] - capped(k)) <= 3000

\* a call with moneyness exactly 1.05 and a full time factor keeps the bases
C20_Witness ==
    /\ pc = "returned"
    /\ "confidences" \in DOMAIN ret
    /\ args.spot_strike = <<1050000, 1000000>>
    /\ args.option_type = "CALL"
    /\ args.days_to_expiry = 30
    /\ ret.confidences = <<8500, 6500, 4000>>

(***************************************************************************)
(* SpecAnalyze: MaxCalls successive calls of predict_option on one         *)
(* contract while the wall clock runs.  The contracts include the          *)
(* non-positive spot, strike, premium and volatility the function accepts. *)
(***************************************************************************)
MaxNow == 3

MaxCalls == 2

\* <<spot_price, strike_price>>
AnalyzeSpotStrike ==
    {<<1855000, 1900000>>, <<1000000, 1000000>>, <<1060000, 1000000>>,
     <<1000000, 0>>, <<0, 1000000>>}

AnalyzePrices == {-10000, 0, 100, 149, 35000}

AnalyzeExpirations == {-1, 0, 1, 20, 38}

AnalyzeVols == {0, 3500, 8100}

\* <<open_interest, volume>>
AnalyzeLiquidity == {<<5000, 1200>>, <<150, 60>>, <<50, 10>>}

AnalyzeContracts ==
    {[symbol |-> "AAPL", company |-> "Apple Inc", market |-> "US",
      spot_price |-> ss[1], strike_price |-> ss[2], option_price |-> p,
      expiration_date |-> e, option_type |-> t, implied_volatility |-> v,
      open_interest |-> l[1], volume |-> l[2]] :
        ss \in AnalyzeSpotStrike, p \in AnalyzePrices, e \in AnalyzeExpirations,
        t \in {"CALL", "PUT"}, v \in AnalyzeVols, l \in AnalyzeLiquidity}

InitAnalyze ==
    /\ pc = "predict_option"
    /\ args \in AnalyzeContracts
    /\ now \in 0..MaxNow
    /\ locals = [frame |-> None, evaluated_at |-> 0, calls |-> <<>>]
    /\ ret = None
    /\ options_data = <<>>
    /\ idx = 0
    /\ predictions = <<>>
    /\ filtered = <<>>
    /\ predictor = OptionsPredictor
    /\ database = EmptyDatabase
    /\ tasks = <<>>

\* the wall clock advances between any two steps
Tick ==
    /\ now < MaxNow
    /\ now' = now + 1
    /\ UNCHANGED <<pc, args, locals, ret, options_data, idx, predictions, filtered, predictor, database, tasks>>

\* the record kept of a finished call
CallRecord(evaluated_at, frame, outcome) ==
    [evaluated_at |-> evaluated_at, days_to_expiry |-> frame.days_to_expiry,
     computed |-> frame.computed, outcome |-> outcome]

NextCallPc(calls) == IF Len(calls) >= MaxCalls THEN "done" ELSE "predict_option"

\* predict_option, lines 318-366, and lines 403-405 when they raise
AnalyzeCompute ==
    /\ pc = "predict_option"
    /\ LET f == predict_option_body(args, now)
       IN  IF "exception" \in DOMAIN f
           THEN LET raised == [exception |-> f.exception, message |-> f.message]
                    calls  == Append(locals.calls, CallRecord(now, f, raised))
                IN  /\ ret' = raised
                    /\ locals' = [frame |-> None, evaluated_at |-> now, calls |-> calls]
                    /\ pc' = NextCallPc(calls)
           ELSE /\ locals' = [locals EXCEPT !.frame = f, !.evaluated_at = now]
                /\ pc' = "predict_option:368"
                /\ UNCHANGED ret
    /\ UNCHANGED <<now, args, options_data, idx, predictions, filtered, predictor, database, tasks>>

\* predict_option, lines 368-401
AnalyzeReturn ==
    /\ pc = "predict_option:368"
    /\ LET prediction == OptionPrediction(args, locals.frame, now)
           calls == Append(locals.calls,
                           CallRecord(locals.evaluated_at, locals.frame, prediction))
       IN  /\ ret' = prediction
           /\ locals' = [locals EXCEPT !.frame = None, !.calls = calls]
           /\ pc' = NextCallPc(calls)
    /\ UNCHANGED <<now, args, options_data, idx, predictions, filtered, predictor, database, tasks>>

NextAnalyze == Tick \/ AnalyzeCompute \/ AnalyzeReturn

SpecAnalyze == InitAnalyze /\ [][NextAnalyze]_vars

\* the finished calls of the specification SpecAnalyze
FinishedCalls == IF "calls" \in DOMAIN locals THEN locals.calls ELSE <<>>

IsPrediction(outcome) == "timestamp" \in DOMAIN outcome

IsException(outcome) == "exception" \in DOMAIN outcome

\* C3: a call whose computed days-to-expiry is negative raises the
\* expired-contract error (the ValueError "Option has already expired") to its
\* caller, before Greeks, targets or score are computed, and returns no result.
C3_ExpiredRaisesBeforeComputation ==
    \A i \in 1..Len(FinishedCalls) :
        LET call == FinishedCalls[i]
        IN  call.days_to_expiry < 0 =>
                /\ IsException(call.outcome)
                /\ call.outcome.exception = "ValueError"
                /\ call.outcome.message = "Option has already expired"
                /\ call.computed = {}

\* a call made after midnight of the expiration day has raised
C3_Witness ==
    /\ Len(FinishedCalls) >= 1
    /\ FinishedCalls[1].days_to_expiry = -1
    /\ args.expiration_date = 0
    /\ args.spot_price > 0 /\ args.strike_price > 0
    /\ args.option_price > 0 /\ args.implied_volatility > 0
    /\ IsException(FinishedCalls[1].outcome)

InvalidInput(c) ==
    \/ c.spot_price <= 0
    \/ c.strike_price <= 0
    \/ c.option_price <= 0
    \/ c.implied_volatility <= 0

\* C4: a contract with spot <= 0, strike <= 0, option_price <= 0 or
\* implied_volatility <= 0 is rejected with an error before any Greeks, target
\* or score computation; no result is returned for it.
C4_InvalidInputRejected ==
    \A i \in 1..Len(FinishedCalls) :
        InvalidInput(args) =>
            /\ IsException(FinishedCalls[i].outcome)
            /\ FinishedCalls[i].computed = {}

\* C7: two calls on the same contract that read the same evaluation instant
\* return results that are equal in every field.
C7_SameInstantSameResult ==
    \A i, j \in 1..Len(FinishedCalls) :
        (/\ ~InvalidInput(args)
         /\ FinishedCalls[i].evaluated_at = FinishedCalls[j].evaluated_at
         /\ IsPrediction(FinishedCalls[i].outcome)
         /\ IsPrediction(FinishedCalls[j].outcome))
            => FinishedCalls[i].outcome = FinishedCalls[j].outcome

\* lines 467-479: the arguments of the example call, apart from the date
ExampleContract(c) ==
    /\ c.spot_price = 1855000 /\ c.strike_price = 1900000
    /\ c.option_price = 35000 /\ upper(c.option_type) = "CALL"
    /\ c.implied_volatility = 3500
    /\ c.open_interest = 5000 /\ c.volume = 1200

\* the finished calls on the example contract made 37 days before its expiry
ScenarioCalls ==
    {i \in 1..Len(FinishedCalls) :
        ExampleContract(args) /\ FinishedCalls[i].days_to_expiry = 37}

\* C12 as stated: the result for the example contract (spot 185.50, strike
\* 190.00, premium 3.50, 37 days, CALL, volatility 0.35, open interest 5000,
\* volume 1200) has a recommendation other than STRONG BUY.
C12_ScenarioNotStrongBuy ==
    \A i \in ScenarioCalls :
        /\ IsPrediction(FinishedCalls[i].outcome)
        /\ FinishedCalls[i].outcome.recommendation # "STRONG BUY"

\* C12: the result for the example contract has delta between 0.4 and 0.5,
\* its moneyness 185.5/190 lies inside the band 0.95..1.05 and contributes 2,
\* the total score is 8 and the recommendation is STRONG BUY with confidence 0.85.
C12_ScenarioStrongBuy ==
    \A i \in ScenarioCalls :
        LET r == FinishedCalls[i].outcome
        IN  /\ IsPrediction(r)
            /\ r.delta > 4000 /\ r.delta < 5000
            /\ score_moneyness(Rat(args.spot_price, args.strike_price)) = 2
            /\ score(r.delta, r.days_to_expiry, r.implied_volatility,
                     r.open_interest, r.volume,
                     Rat(args.spot_price, args.strike_price)) = 8
            /\ r.recommendation = "STRONG BUY"
            /\ r.overall_confidence = 8500

\* a call on the example contract 37 days before expiry has returned
C12_Witness ==
    /\ ScenarioCalls # {}
    /\ \E i \in ScenarioCalls : IsPrediction(FinishedCalls[i].outcome)

\* the fields of the OptionPrediction dataclass, lines 18-47
OptionPredictionFields ==
    {"symbol", "company", "market", "option_type", "entry_price", "current_price",
     "strike_price", "expiration_date", "days_to_expiry", "target1",
     "target1_confidence", "target2", "target2_confidence", "target3",
     "target3_confidence", "implied_volatility", "delta", "gamma", "theta", "vega",
     "open_interest", "volume", "recommendation", "overall_confidence", "risk_level",
     "max_profit_potential", "max_loss_potential", "breakeven_price", "timestamp"}

\* C13: a call on a contract with positive spot, strike, premium and
\* volatility whose days-to-expiry is exactly 0 does not raise; it returns a
\* result with every field, whose delta, gamma, theta and vega are 0.
C13_ExpiryDayIsValid ==
    \A i \in 1..Len(FinishedCalls) :
        LET call == FinishedCalls[i]
        IN  (call.days_to_expiry = 0 /\ ~InvalidInput(args)) =>
                /\ IsPrediction(call.outcome)
                /\ DOMAIN call.outcome = OptionPredictionFields
                /\ call.outcome.days_to_expiry = 0
                /\ call.outcome.delta = 0 /\ call.outcome.gamma = 0
                /\ call.outcome.theta = 0 /\ call.outcome.vega = 0

\* a call made on the day before the midnight of expiry has returned a result
C13_Witness ==
    /\ Len(FinishedCalls) >= 1
    /\ ~InvalidInput(args)
    /\ args.expiration_date = 1
    /\ FinishedCalls[1].days_to_expiry = 0
    /\ FinishedCalls[1].evaluated_at > 0
    /\ IsPrediction(FinishedCalls[1].outcome)

\* C15: the breakeven price of every result is strike + premium for a CALL and
\* strike - premium for a PUT, rounded to 2 decimals; spot, volatility and
\* days to expiry have no part in it.
C15_Breakeven ==
    \A i \in 1..Len(FinishedCalls) :
        LET r == FinishedCalls[i].outcome
            exact == IF r.option_type = "CALL"
                     THEN args.strike_price + args.option_price
                     ELSE args.strike_price - args.option_price
        IN  IsPrediction(r) =>
                /\ r.option_type \in {"CALL", "PUT"}
                /\ r.breakeven_price % 100 = 0
                /\ 2 * Abs(r.breakeven_price - exact) <= 100
                /\ (exact % 100 = 0 => r.breakeven_price = exact)

\* a PUT result whose breakeven needed rounding, and is below the strike
C15_Witness ==
    /\ Len(FinishedCalls) >= 1
    /\ IsPrediction(FinishedCalls[1].outcome)
    /\ args.option_type = "PUT"
    /\ args.option_price = 149
    /\ args.strike_price = 1000000
    /\ FinishedCalls[1].outcome.breakeven_price = 999900

\* C16: in every result, CALL or PUT, max_loss_potential is -100; for a
\* non-zero premium max_profit_potential is (target3 - premium) / premium * 100
\* rounded to 2 decimals, target3 being the reported third target.
C16_ProfitAndLossPotential ==
    \A i \in 1..Len(FinishedCalls) :
        LET r == FinishedCalls[i].outcome
        IN  IsPrediction(r) =>
                /\ r.max_loss_potential = -10000
                /\ (args.option_price # 0 =>
                        2 * Abs(r.max_profit_potential * args.option_price
                                - (r.target3 - args.option_price) * 10000)
                            <= Abs(args.option_price))

\* a CALL and its positive profit potential: premium 3.50 with 37 days left
C16_Witness ==
    /\ Len(FinishedCalls) >= 1
    /\ IsPrediction(FinishedCalls[1].outcome)
    /\ args.option_price = 35000
    /\ args.implied_volatility = 3500
    /\ FinishedCalls[1].days_to_expiry = 37
    /\ FinishedCalls[1].outcome.max_profit_potential > 0
    /\ FinishedCalls[1].outcome.max_loss_potential = -10000

(***************************************************************************)
(* Spec: batch_predict_options over up to MaxBatch records while the wall  *)
(* clock runs, followed by filter_best_opportunities on the returned list. *)
(***************************************************************************)
MaxBatch == 3

Contract(symbol, spot, strike, price, expiration, type, vol, oi, volume) ==
    [symbol |-> symbol, company |-> symbol, market |-> "US",
     spot_price |-> spot, strike_price |-> strike, option_price |-> price,
     expiration_date |-> expiration, option_type |-> type, implied_volatility |-> vol,
     open_interest |-> oi, volume |-> volume]

\* AAPL is the example of lines 467-479; NFLX expires on day 0, so it is
\* analysed at midnight and expired afterwards; META has a zero strike
BatchContracts ==
    {Contract("AAPL", 1855000, 1900000, 35000, 38, "CALL", 3500, 5000, 1200),
     Contract("MSFT", 1000000, 1000000, 25000, 20, "CALL", 8100, 150, 60),
     Contract("TSLA", 1000000, 1000000, 25000, 38, "PUT", 7500, 50, 10),
     Contract("GOOG", 850000, 1000000, 10000, 38, "CALL", 3500, 5000, 1200),
     Contract("NFLX", 1000000, 1000000, 25000, 0, "CALL", 3500, 5000, 1200),
     Contract("AMZN", 850000, 1000000, 10000, 20, "CALL", 3500, 50, 10),
     Contract("META", 1000000, 0, 25000, 38, "CALL", 3500, 5000, 1200)}

RECURSIVE SeqsUpTo(_, _)
SeqsUpTo(S, n) ==
    IF n = 0 THEN {<<>>}
    ELSE LET shorter == SeqsUpTo(S, n - 1)
         IN  shorter \cup {Append(q, x) : q \in shorter, x \in S}

FilterConfidences == {6500, 7000, 8500}

FilterRisks == {"LOW", "MEDIUM", "HIGH"}

Init ==
    /\ pc = "batch_predict_options"
    /\ options_data \in SeqsUpTo(BatchContracts, MaxBatch)
    /\ now \in 0..1
    /\ idx = 1
    /\ predictions = <<>>
    /\ locals = [frame |-> None, outcomes |-> <<>>]
    /\ args = None
    /\ ret = None
    /\ filtered = <<>>
    /\ predictor = OptionsPredictor
    /\ database = EmptyDatabase
    /\ tasks = <<>>

\* lines 419-425: one record enters predict_option (lines 318-366); an exception
\* is caught at line 423
BatchCompute ==
    /\ pc = "batch_predict_options"
    /\ idx <= Len(options_data)
    /\ LET f == predict_option_call(options_data[idx], now)
       IN  IF "exception" \in DOMAIN f
           THEN /\ locals' = [frame |-> None,
                              outcomes |-> Append(locals.outcomes,
                                                  [exception |-> f.exception,
                                                   message |-> f.message])]
                /\ idx' = after_exception(idx, Len(options_data))
                /\ pc' = pc
           ELSE /\ locals' = [locals EXCEPT !.frame = f]
                /\ pc' = "predict_option:368"
                /\ UNCHANGED idx
    /\ UNCHANGED <<now, args, ret, options_data, predictions, filtered, predictor, database, tasks>>

\* predict_option lines 368-401 and line 422: the prediction is appended
BatchAppend ==
    /\ pc = "predict_option:368"
    /\ LET prediction == OptionPrediction(options_data[idx], locals.frame, now)
       IN  /\ predictions' = Append(predictions, prediction)
           /\ locals' = [frame |-> None, outcomes |-> Append(locals.outcomes, prediction)]
    /\ idx' = idx + 1
    /\ pc' = "batch_predict_options"
    /\ UNCHANGED <<now, args, ret, options_data, filtered, predictor, database, tasks>>

\* line 427: the loop is over and the list is returned
BatchReturn ==
    /\ pc = "batch_predict_options"
    /\ idx > Len(options_data)
    /\ ret' = predictions
    /\ pc' = "filter_best_opportunities"
    /\ UNCHANGED <<now, args, locals, options_data, idx, predictions, filtered, predictor, database, tasks>>

\* filter_best_opportunities, lines 444-457, on the list the batch returned
FilterBest ==
    /\ pc = "filter_best_opportunities"
    /\ \E min_confidence \in FilterConfidences, max_risk \in FilterRisks :
        /\ args' = [min_confidence |-> min_confidence, max_risk |-> max_risk]
        /\ filtered' = filter_best_opportunities(predictions, min_confidence, max_risk)
    /\ pc' = "done"
    /\ UNCHANGED <<now, locals, ret, options_data, idx, predictions, predictor, database, tasks>>

Next == Tick \/ BatchCompute \/ BatchAppend \/ BatchReturn \/ FilterBest

Spec == Init /\ [][Next]_vars

BatchReturned == pc \in {"filter_best_opportunities", "done"} /\ "outcomes" \in DOMAIN locals

\* C8: an expired record does not end the batch: every record is analysed,
\* the failing ones are skipped, and the returned list holds the results of
\* the others in input order.
C8_BatchSkipsExpired ==
    BatchReturned =>
        /\ Len(locals.outcomes) = Len(options_data)
        /\ predictions = SelectSeq(locals.outcomes, IsPrediction)
        /\ \A i \in 1..Len(options_data) :
              IsPrediction(locals.outcomes[i]) =>
                  locals.outcomes[i].symbol = options_data[i].symbol
        /\ Len(predictions) =
              Cardinality({i \in 1..Len(options_data) : IsPrediction(locals.outcomes[i])})

\* a batch whose first record had expired and whose later record was analysed
C8_Witness ==
    /\ BatchReturned
    /\ Len(options_data) >= 2
    /\ IsException(locals.outcomes[1])
    /\ locals.outcomes[1].message = "Option has already expired"
    /\ IsPrediction(locals.outcomes[2])
    /\ predictions # <<>>

FilterDone == pc = "done" /\ "min_confidence" \in DOMAIN args

Count(list, x) == Cardinality({i \in 1..Len(list) : list[i] = x})

RiskRank(r) == CASE r = "LOW" -> 1 [] r = "MEDIUM" -> 2 [] r = "HIGH" -> 3

\* C9: the filter returns exactly the results that are BUY or STRONG BUY, have
\* overall confidence >= min_confidence and risk tier <= max_risk.
C9_FilterExact ==
    FilterDone =>
        /\ \A i \in 1..Len(filtered) :
              /\ filtered[i].recommendation \in {"BUY", "STRONG BUY"}
              /\ filtered[i].overall_confidence >= args.min_confidence
              /\ RiskRank(filtered[i].risk_level) <= RiskRank(args.max_risk)
              /\ Count(filtered, filtered[i]) = Count(predictions, filtered[i])
        /\ \A i \in 1..Len(predictions) :
              (/\ predictions[i].recommendation = "BUY"
                  \/ predictions[i].recommendation = "STRONG BUY"
               /\ predictions[i].overall_confidence >= args.min_confidence
               /\ RiskRank(predictions[i].risk_level) <= RiskRank(args.max_risk))
                  => Count(filtered, predictions[i]) = Count(predictions, predictions[i])

\* a filter that kept one result at the confidence bound and dropped another
C9_Witness ==
    /\ FilterDone
    /\ Len(filtered) >= 1
    /\ Len(filtered) < Len(predictions)
    /\ \E i \in 1..Len(filtered) : filtered[i].overall_confidence = args.min_confidence
    /\ \E i \in 1..Len(predictions) :
          /\ predictions[i].recommendation = "BUY"
          /\ RiskRank(predictions[i].risk_level) > RiskRank(args.max_risk)

\* C10: the filtered list is in descending order of confidence, and results of
\* equal confidence keep the relative order they had in the input.
C10_SortedDescendingStable ==
    FilterDone =>
        /\ \A i, j \in 1..Len(filtered) :
              i < j => filtered[i].overall_confidence >= filtered[j].overall_confidence
        /\ \A c \in {filtered[i].overall_confidence : i \in 1..Len(filtered)} :
              LET SameInOutput(p) == p.overall_confidence = c
                  SameInInput(p)  == /\ p.overall_confidence = c
                                     /\ \E i \in 1..Len(filtered) : filtered[i] = p
              IN  SelectSeq(filtered, SameInOutput) = SelectSeq(predictions, SameInInput)

\* two different results of equal confidence behind one of higher confidence
\* that came later in the input
C10_Witness ==
    /\ FilterDone
    /\ Len(filtered) = 3
    /\ filtered[1].overall_confidence > filtered[2].overall_confidence
    /\ filtered[2].overall_confidence = filtered[3].overall_confidence
    /\ filtered[2].symbol # filtered[3].symbol
    /\ predictions[3] = filtered[1]

\* the outcome of one record agrees with an analysis made at the instant t
MeasuredAt(record, outcome, t) ==
    IF IsPrediction(outcome)
    THEN outcome.days_to_expiry = days_between(record.expiration_date, t)
    ELSE outcome.message = "Option has already expired" =>
             days_between(record.expiration_date, t) < 0

\* C17: all records of one batch are measured against one reference instant:
\* there is an instant from which the days-to-expiry of every result, and the
\* expired or not-expired decision of every record, follow, even if the wall
\* clock advances while the batch runs.
C17_BatchOneInstant ==
    BatchReturned =>
        \E t \in 0..MaxNow :
            \A i \in 1..Len(options_data) :
                MeasuredAt(options_data[i], locals.outcomes[i], t)

(***************************************************************************)
(* SpecRecords: batch_predict_options over dictionaries of every kind that *)
(* a caller can put into the list: analysable, expiring on day 0, with a   *)
(* zero strike, with a negative premium, with a key missing and with a key *)
(* too many.                                                               *)
(***************************************************************************)
ExampleRecord == Contract("AAPL", 1855000, 1900000, 35000, 38, "CALL", 3500, 5000, 1200)

\* the example without its 'volume' key
RecordWithoutVolume ==
    [k \in predict_option_parameters \ {"volume"} |-> ExampleRecord[k]]

\* the example with a 'bid' key added
RecordWithBid ==
    [k \in predict_option_parameters \cup {"bid"} |->
        IF k = "bid" THEN 34000 ELSE ExampleRecord[k]]

BatchRecords ==
    {ExampleRecord,
     Contract("NFLX", 1000000, 1000000, 25000, 0, "CALL", 3500, 5000, 1200),
     Contract("META", 1000000, 0, 25000, 38, "CALL", 3500, 5000, 1200),
     Contract("ORCL", 1000000, 1000000, -10000, 38, "CALL", 3500, 5000, 1200),
     RecordWithoutVolume,
     RecordWithBid}

InitRecords ==
    /\ pc = "batch_predict_options"
    /\ options_data \in SeqsUpTo(BatchRecords, MaxBatch)
    /\ now = 0
    /\ idx = 1
    /\ predictions = <<>>
    /\ locals = [frame |-> None, outcomes |-> <<>>]
    /\ args = None
    /\ ret = None
    /\ filtered = <<>>
    /\ predictor = OptionsPredictor
    /\ database = EmptyDatabase
    /\ tasks = <<>>

SpecRecords == InitRecords /\ [][Next]_vars

\* a dictionary that is not a contract to analyse: wrong keys, or a strike or a
\* premium that is not positive
InvalidRecord(option_data) ==
    \/ DOMAIN option_data # predict_option_parameters
    \/ option_data.strike_price <= 0
    \/ option_data.option_price <= 0

\* C24: batch_predict_options never raises; a failure of any kind in one
\* record (expired, strike or premium not positive, a key missing or too many)
\* removes that record and no other, so the returned list holds exactly the
\* records whose analysis succeeded, and an invalid record leaves the same
\* trace as an expired one: none.
C24_BatchRemovesEveryFailure ==
    BatchReturned =>
        /\ ret = predictions
        /\ Len(locals.outcomes) = Len(options_data)
        /\ predictions = SelectSeq(locals.outcomes, IsPrediction)
        /\ \A i \in 1..Len(options_data) :
              InvalidRecord(options_data[i]) => IsException(locals.outcomes[i])

\* the part of C24 about exceptions alone: every record is visited, whatever
\* was raised before it, and the returned list is the list of the analyses
\* that raised nothing
C24_ExceptionsSkipped ==
    BatchReturned =>
        /\ ret = predictions
        /\ Len(locals.outcomes) = Len(options_data)
        /\ predictions = SelectSeq(locals.outcomes, IsPrediction)
        /\ \A i \in 1..Len(options_data) :
              DOMAIN options_data[i] # predict_option_parameters
                  => IsException(locals.outcomes[i])

(***************************************************************************)
(* SpecFilter: filter_best_opportunities called directly, with lists of    *)
(* OptionPrediction objects whose risk_level is any string (the dataclass  *)
(* checks nothing) and with any string as max_risk.                        *)
(***************************************************************************)
MaxPredictions == 2

RiskStrings == {"LOW", "MEDIUM", "HIGH", "low", "EXTREME"}

MaxRiskStrings == {"LOW", "MEDIUM", "HIGH", "low", "Medium", ""}

\* the fields of an OptionPrediction that lines 444-455 read, and its symbol
FilterPredictions ==
    [symbol : {"AAPL"}, recommendation : {"BUY", "HOLD"},
     overall_confidence : {7000, 8500}, risk_level : RiskStrings]

InitFilter ==
    /\ pc = "filter_best_opportunities"
    /\ predictions \in SeqsUpTo(FilterPredictions, MaxPredictions)
    /\ now = 0
    /\ idx = 0
    /\ locals = None
    /\ args = None
    /\ ret = None
    /\ options_data = <<>>
    /\ filtered = <<>>
    /\ predictor = OptionsPredictor
    /\ database = EmptyDatabase
    /\ tasks = <<>>

\* one call of filter_best_opportunities, lines 429-457
FilterBestOpportunities ==
    /\ pc = "filter_best_opportunities"
    /\ \E min_confidence \in {6500, 8500}, max_risk \in MaxRiskStrings :
        /\ args' = [min_confidence |-> min_confidence, max_risk |-> max_risk]
        /\ filtered' = filter_best_opportunities(predictions, min_confidence, max_risk)
    /\ ret' = [returned |-> TRUE]
    /\ pc' = "done"
    /\ UNCHANGED <<now, locals, options_data, idx, predictions, predictor, database, tasks>>

NextFilter == FilterBestOpportunities

SpecFilter == InitFilter /\ [][NextFilter]_vars

\* C27: a max_risk that is not exactly LOW, MEDIUM or HIGH counts as MEDIUM and
\* a risk_level that is not one of the three counts as HIGH: the call returns
\* (it does not raise) the BUY and STRONG BUY results with confidence >=
\* min_confidence whose tier, so read, is not above max_risk, so read.
C27_UnknownRiskDefaults ==
    (FilterDone /\ "returned" \in DOMAIN ret) =>
        LET limit == CASE args.max_risk = "LOW" -> 1
                       [] args.max_risk = "HIGH" -> 3
                       [] OTHER -> 2
            tier(p) == CASE p.risk_level = "LOW" -> 1
                         [] p.risk_level = "MEDIUM" -> 2
                         [] OTHER -> 3
            kept(p) == /\ p.recommendation \in {"BUY", "STRONG BUY"}
                       /\ p.overall_confidence >= args.min_confidence
                       /\ tier(p) <= limit
        IN  /\ Len(filtered) = Cardinality({i \in 1..Len(predictions) : kept(predictions[i])})
            /\ \A i \in 1..Len(filtered) : kept(filtered[i])
            /\ \A i \in 1..Len(predictions) :
                  kept(predictions[i]) =>
                      Count(filtered, predictions[i]) = Count(predictions, predictions[i])

\* max_risk 'low' kept a MEDIUM result and dropped a result whose risk_level
\* is the unknown string 'low'
C27_Witness ==
    /\ FilterDone
    /\ "returned" \in DOMAIN ret
    /\ args.max_risk = "low"
    /\ Len(predictions) = 2
    /\ Len(filtered) = 1
    /\ filtered[1].risk_level = "MEDIUM"
    /\ \E i \in 1..2 :
          /\ predictions[i].risk_level = "low"
          /\ predictions[i].recommendation = "BUY"
          /\ predictions[i].overall_confidence >= args.min_confidence

(***************************************************************************)
(* SpecConcurrent: MaxThreads threads call predict_option on one predictor *)
(* instance, their steps interleaved in any order while the clock runs.    *)
(* Each call has its own arguments and local variables (args[t],           *)
(* locals[t]); the instance is the only object the calls have in common.   *)
(***************************************************************************)
MaxThreads == 2

Threads == 1..MaxThreads

ConcurrentContracts ==
    {c \in BatchContracts : c.symbol \in {"AAPL", "NFLX", "META"}}

\* predict_option with an assignment to self.historical_accuracy added
instance_after_call_recording(instance, c, f) ==
    [instance EXCEPT !.historical_accuracy = <<c.symbol>>]

\* lines 318-405 assign to no attribute of self: the instance after a call
instance_after_call(instance, c, f) == instance

InitConcurrent ==
    /\ pc = [t \in Threads |-> "predict_option:320"]
    /\ args \in [Threads -> ConcurrentContracts]
    /\ now \in 0..1
    /\ locals = [t \in Threads |-> [frame |-> None, evaluated_at |-> 0, days_to_expiry |-> 0]]
    /\ ret = [t \in Threads |-> None]
    /\ options_data = <<>>
    /\ idx = 0
    /\ predictions = <<>>
    /\ filtered = <<>>
    /\ predictor = OptionsPredictor
    /\ database = EmptyDatabase
    /\ tasks = <<>>

\* lines 320-321 in thread t: the clock is read
ThreadReadClock(t) ==
    /\ pc[t] = "predict_option:320"
    /\ locals' = [locals EXCEPT ![t].evaluated_at = now,
                                ![t].days_to_expiry = days_between(args[t].expiration_date, now)]
    /\ pc' = [pc EXCEPT ![t] = "predict_option:323"]
    /\ UNCHANGED <<now, args, ret, options_data, idx, predictions, filtered, predictor, database, tasks>>

\* lines 323-366 in thread t, and lines 403-405 when they raise
ThreadCompute(t) ==
    /\ pc[t] = "predict_option:323"
    /\ LET f == predict_option_checked(args[t], locals[t].days_to_expiry)
       IN  /\ predictor' = instance_after_call(predictor, args[t], f)
           /\ IF "exception" \in DOMAIN f
              THEN /\ ret' = [ret EXCEPT ![t] = [exception |-> f.exception,
                                                 message |-> f.message]]
                   /\ pc' = [pc EXCEPT ![t] = "raised"]
                   /\ UNCHANGED locals
              ELSE /\ locals' = [locals EXCEPT ![t].frame = f]
                   /\ pc' = [pc EXCEPT ![t] = "predict_option:368"]
                   /\ UNCHANGED ret
    /\ UNCHANGED <<now, args, options_data, idx, predictions, filtered, database, tasks>>

\* lines 368-401 in thread t
ThreadReturn(t) ==
    /\ pc[t] = "predict_option:368"
    /\ ret' = [ret EXCEPT ![t] = OptionPrediction(args[t], locals[t].frame, now)]
    /\ pc' = [pc EXCEPT ![t] = "returned"]
    /\ UNCHANGED <<now, args, locals, options_data, idx, predictions, filtered, predictor, database, tasks>>

NextConcurrent ==
    \/ Tick
    \/ \E t \in Threads : ThreadReadClock(t)
    \/ \E t \in Threads : ThreadCompute(t)
    \/ \E t \in Threads : ThreadReturn(t)

SpecConcurrent == InitConcurrent /\ [][NextConcurrent]_vars

\* what the call of thread t returns when it runs alone and reads the clock
\* values this call has read
AloneResult(t, clock398) ==
    OptionPrediction(args[t], predict_option_body(args[t], locals[t].evaluated_at), clock398)

\* C18: no step of a call writes a field of the predictor instance or of an
\* input, and a call that returns while other calls are in progress returns
\* what it returns alone for the same clock readings; no lock is involved.
C18_NoSharedMutableState ==
    [][/\ predictor' = predictor
       /\ predictor = OptionsPredictor
    /\ database = EmptyDatabase
    /\ tasks = <<>>
       /\ args' = args
       /\ \A t \in Threads :
              (pc[t] = "predict_option:368" /\ pc'[t] = "returned") =>
                  ret'[t] = AloneResult(t, now)]_vars

\* thread 2 started after thread 1 had read the clock and before thread 1
\* built its result; both have returned
C18_Witness ==
    /\ DOMAIN pc = Threads
    /\ pc[1] = "returned" /\ pc[2] = "returned"
    /\ args[1] # args[2]
    /\ locals[1].evaluated_at < locals[2].evaluated_at
    /\ locals[2].evaluated_at < ret[1].timestamp

(***************************************************************************)
(* options_api.py: generate_sample_predictions (lines 699-919), the        *)
(* repository query get_latest_predictions (option_repository.py, lines    *)
(* 112-178), save_predictions_to_db (lines 1317-1338) and the handler of   *)
(* GET /api/predictions/best (lines 922-960).                              *)
(* Of a prediction the model keeps the key (symbol, expiration_date), the  *)
(* market and the fields computed from days_to_expiry and                  *)
(* implied_volatility; the price fields (targets, breakeven, profit) are   *)
(* left out.  Confidences are in 1/10000, as everywhere.                   *)
(***************************************************************************)
Max(a, b) == IF a >= b THEN a ELSE b

\* Python's order on the three risk strings: "HIGH" < "LOW" < "MEDIUM"
str_rank(s) == CASE s = "HIGH" -> 1 [] s = "LOW" -> 2 [] s = "MEDIUM" -> 3

\* max() of two strings, line 861
str_max(a, b) == IF str_rank(b) > str_rank(a) THEN b ELSE a

\* line 859
volatility_risk(implied_vol) ==
    IF implied_vol > 4000 THEN "HIGH" ELSE IF implied_vol > 2800 THEN "MEDIUM" ELSE "LOW"

\* line 860
time_risk(days_to_expiry) ==
    IF days_to_expiry < 14 THEN "HIGH" ELSE IF days_to_expiry < 45 THEN "MEDIUM" ELSE "LOW"

\* line 861
sample_risk_level(implied_vol, days_to_expiry) ==
    str_max(volatility_risk(implied_vol), time_risk(days_to_expiry))

\* line 847: max(0.85, 1 - days_to_expiry / 500), in 1/1000000
sample_time_factor(days_to_expiry) == Max(850000, (500 - days_to_expiry) * 2000)

\* lines 850-852: the three confidences before rounding, in 1/1000000
sample_target_confidences(tf) ==
    <<Min(950000, (tf * 99) \div 100),
      Min(850000, (tf * 81) \div 100),
      Min(700000, (tf * 585) \div 1000)>>

\* line 855: the weighted sum, in 1/10000000
sample_overall_confidence(tc) == 5 * tc[1] + 3 * tc[2] + 2 * tc[3]

\* lines 885-889: round(x, 2) of a confidence given in 1/1000000; the double
\* computed for 0.585 lies above the decimal half and rounds to 0.59
round_confidence(x) == IF x = 585000 THEN 5900 ELSE 100 * round(x, 10000)

\* line 893: round(overall_confidence, 2) of a value in 1/10000000; the double
\* computed for 0.835 lies below the decimal half and rounds to 0.83
round_overall(x) == IF x = 8350000 THEN 8300 ELSE 100 * round(x, 100000)

\* lines 864-871, on the unrounded overall confidence (1/10000000)
sample_recommendation(overall, risk_level) ==
    IF overall >= 8000000 /\ risk_level \in {"LOW", "MEDIUM"} THEN "STRONG BUY"
    ELSE IF overall >= 7000000 THEN "BUY"
    ELSE IF overall >= 6000000 THEN "HOLD"
    ELSE "AVOID"

\* line 899
prediction_quality(overall) ==
    IF overall >= 8000000 THEN "HIGH" ELSE IF overall >= 6500000 THEN "MEDIUM" ELSE "LOW"

\* lines 873-901 once days_to_expiry, the confidences, their weighted sum and
\* the risk level are known
sample_prediction_record(real_opt, days_to_expiry, tc, overall, risk_level) ==
    [symbol |-> real_opt.symbol,
     market |-> real_opt.market,
     option_type |-> "CALL",
     expiration_date |-> real_opt.expiry,
     days_to_expiry |-> days_to_expiry,
     target1_confidence |-> round_confidence(tc[1]),
     target2_confidence |-> round_confidence(tc[2]),
     target3_confidence |-> round_confidence(tc[3]),
     implied_volatility |-> real_opt.implied_volatility,
     delta |-> 6500,
     recommendation |-> sample_recommendation(overall, risk_level),
     overall_confidence |-> round_overall(overall),
     risk_level |-> risk_level,
     prediction_quality |-> prediction_quality(overall),
     data_quality |-> "REAL_MARKET"]

sample_prediction_scored(real_opt, days_to_expiry, tc) ==
    sample_prediction_record(real_opt, days_to_expiry, tc, sample_overall_confidence(tc),
        sample_risk_level(real_opt.implied_volatility, days_to_expiry))

\* lines 833-902: the prediction for one real option, current_date being the
\* clock value read at line 811
sample_prediction_at(real_opt, days_to_expiry) ==
    sample_prediction_scored(real_opt, days_to_expiry,
        sample_target_confidences(sample_time_factor(days_to_expiry)))

sample_prediction(real_opt, current_date) ==
    sample_prediction_at(real_opt, days_between(real_opt.expiry, current_date))

\* real_options[:limit], line 832, for limit >= 0
head(list, limit) == SubSeq(list, 1, Min(limit, Len(list)))

\* lines 821-829 and 832-919: the response built from the fetched options
generate_sample_predictions(real_options, limit, current_date) ==
    LET sample_data == [i \in 1..Len(head(real_options, limit)) |->
                            sample_prediction(real_options[i], current_date)]
    IN  [total |-> Len(sample_data),
         predictions |-> sample_data,
         real_options_count |-> Len(real_options)]

\* the key of the tables options and option_predictions; every option of the
\* model is a CALL and has one strike per expiration date
same_option(a, b) == a.symbol = b.symbol /\ a.expiration_date = b.expiration_date

\* option_repository.py lines 19-53: ON CONFLICT updates days_to_expiry (and
\* company and entry_price) and leaves the market of the existing row
upsert_option(options, pred) ==
    LET old == {o \in options : same_option(o, pred)}
    IN  (options \ old) \cup
        {[symbol |-> pred.symbol, expiration_date |-> pred.expiration_date,
          market |-> IF old = {} THEN pred.market ELSE (CHOOSE o \in old : TRUE).market,
          days_to_expiry |-> pred.days_to_expiry]}

\* option_repository.py lines 55-110: the row is stamped with the clock (line
\* 88); ON CONFLICT replaces the row of the same time and key
insert_option_prediction(rows, pred, clock) ==
    {r \in rows : ~(r.time = clock /\ same_option(r, pred))} \cup
    {[time |-> clock, symbol |-> pred.symbol, expiration_date |-> pred.expiration_date,
      option_type |-> pred.option_type,
      target1_confidence |-> pred.target1_confidence,
      target2_confidence |-> pred.target2_confidence,
      target3_confidence |-> pred.target3_confidence,
      recommendation |-> pred.recommendation,
      overall_confidence |-> pred.overall_confidence,
      risk_level |-> pred.risk_level,
      implied_volatility |-> pred.implied_volatility,
      delta |-> pred.delta]}

\* lines 1320-1334 for the predictions from position i on
RECURSIVE save_from(_, _, _, _)
save_from(db, preds, i, clock) ==
    IF i > Len(preds) THEN db
    ELSE save_from([options |-> upsert_option(db.options, preds[i]),
                    option_predictions |->
                        insert_option_prediction(db.option_predictions, preds[i], clock)],
                   preds, i + 1, clock)

\* lines 1317-1338; with the database down every statement fails, is logged
\* (option_repository.py lines 51-53, 108-110) and nothing is stored
save_predictions_to_db(db, preds, db_up, clock) ==
    IF db_up THEN save_from(db, preds, 1, clock) ELSE db

\* the options the market data can hold (lines 527-539), listed in the order
\* of the key (symbol, expiration date)
RealOptions ==
    <<[symbol |-> "AAPL", market |-> "US", expiry |-> 3, implied_volatility |-> 5000],
      [symbol |-> "MSFT", market |-> "US", expiry |-> 40, implied_volatility |-> 2500],
      [symbol |-> "NVDA", market |-> "US", expiry |-> 50, implied_volatility |-> 4500]>>

\* option_repository.py lines 127-141: the joined rows that pass the WHERE
\* clause for the key of real option k; max_risk is no parameter of the query
latest_rows(db, k, market, min_confidence, clock) ==
    {r \in db.option_predictions :
        /\ r.symbol = RealOptions[k].symbol
        /\ r.expiration_date = RealOptions[k].expiry
        /\ r.time >= clock - TicksPerDay
        /\ r.overall_confidence >= min_confidence
        /\ \E o \in db.options :
               /\ same_option(o, r)
               /\ (market # "" => o.market = market)}

\* option_repository.py lines 148-175: the dictionary built from the newest row
\* of a key (DISTINCT ON with ORDER BY ... time DESC) and its options row
latest_row(db, rows) ==
    LET r == CHOOSE x \in rows : \A y \in rows : x.time >= y.time
        o == CHOOSE x \in db.options : same_option(x, r)
    IN  [symbol |-> r.symbol, market |-> o.market, option_type |-> r.option_type,
         expiration_date |-> r.expiration_date, days_to_expiry |-> o.days_to_expiry,
         target1_confidence |-> r.target1_confidence,
         target2_confidence |-> r.target2_confidence,
         target3_confidence |-> r.target3_confidence,
         recommendation |-> r.recommendation,
         overall_confidence |-> r.overall_confidence,
         risk_level |-> r.risk_level,
         implied_volatility |-> r.implied_volatility,
         delta |-> r.delta,
         last_updated |-> r.time]

\* the keys, in ORDER BY order, that have a row passing the WHERE clause
latest_keys(db, market, min_confidence, clock) ==
    SelectSeq([k \in 1..Len(RealOptions) |-> k],
              LAMBDA k : latest_rows(db, k, market, min_confidence, clock) # {})

\* option_repository.py lines 112-178, with LIMIT; an error of the database is
\* logged and gives the empty list (lines 176-178)
get_latest_predictions(db, db_up, market, min_confidence, limit, clock) ==
    IF ~db_up THEN <<>>
    ELSE LET keys == head(latest_keys(db, market, min_confidence, clock), limit)
         IN  [i \in 1..Len(keys) |->
                 latest_row(db, latest_rows(db, keys[i], market, min_confidence, clock))]

\* lines 942-947
database_response(db_predictions) ==
    [total |-> Len(db_predictions), predictions |-> db_predictions, source |-> "database"]

\* lines 931-956: the response of GET /api/predictions/best.  db_predictions is
\* the result of the query of line 934; max_risk is read nowhere
get_best_predictions(request, db_predictions, real_options, clock) ==
    IF ~request.force_refresh /\ db_predictions # <<>>
    THEN database_response(db_predictions)
    ELSE generate_sample_predictions(real_options, request.limit, clock)

(***************************************************************************)
(* SpecBest: MaxRequests requests GET /api/predictions/best with the same  *)
(* query parameters, on a database that is empty at first, while the clock *)
(* runs and the background tasks that save generated predictions run.      *)
(***************************************************************************)
MaxRequests == 2

\* the lists try_fetch_real_options_prices can return (line 818)
FetchedOptions ==
    {<<>>, <<RealOptions[1]>>, <<RealOptions[1], RealOptions[2]>>,
     <<RealOptions[2], RealOptions[3]>>, <<RealOptions[3]>>}

BestRequests ==
    [market : {"", "INDIA"}, min_confidence : {6500, 8000},
     max_risk : {"LOW", "MEDIUM", "HIGH"}, limit : {1, 20}, force_refresh : BOOLEAN]

InitBest ==
    /\ pc = "get_best_predictions"
    /\ args \in BestRequests
    /\ now = 0
    /\ locals = [requests |-> 0]
    /\ ret = None
    /\ options_data = <<>>
    /\ idx = 0
    /\ predictions = <<>>
    /\ filtered = <<>>
    /\ predictor = OptionsPredictor
    /\ database = EmptyDatabase
    /\ tasks = <<>>

\* the handler, lines 922-960, which has no await and runs in one piece: the
\* query, or the generation from the options fetched at line 818 together
\* with the task of line 954
GetBestPredictions ==
    /\ pc = "get_best_predictions"
    /\ locals.requests < MaxRequests
    /\ \E db_up \in BOOLEAN, real_options \in FetchedOptions :
          LET db_predictions ==
                  IF args.force_refresh THEN <<>>
                  ELSE get_latest_predictions(database, db_up, args.market,
                                              args.min_confidence, args.limit, now)
              response == get_best_predictions(args, db_predictions, real_options, now)
          IN  /\ ret' = response
              /\ options_data' = real_options
              /\ tasks' = IF "source" \in DOMAIN response THEN tasks
                          ELSE Append(tasks, response.predictions)
    /\ locals' = [requests |-> locals.requests + 1]
    /\ UNCHANGED <<pc, now, args, idx, predictions, filtered, predictor, database>>

\* the task created at line 954 runs: save_predictions_to_db, lines 1317-1338
SavePredictionsToDb ==
    /\ tasks # <<>>
    /\ \E db_up \in BOOLEAN :
          database' = save_predictions_to_db(database, Head(tasks), db_up, now)
    /\ tasks' = Tail(tasks)
    /\ UNCHANGED <<pc, now, args, locals, ret, options_data, idx, predictions, filtered, predictor>>

NextBest == Tick \/ GetBestPredictions \/ SavePredictionsToDb

SpecBest == InitBest /\ [][NextBest]_vars

\* a response of the endpoint is held in ret
BestResponded == "predictions" \in DOMAIN ret /\ "requests" \in DOMAIN locals

\* C19: every prediction of a response of GET /api/predictions/best has
\* overall_confidence >= min_confidence and a risk level not above max_risk
\* (LOW < MEDIUM < HIGH), whether it comes from the database or was generated.
C19_BestRespectsFilters ==
    BestResponded =>
        \A i \in 1..Len(ret.predictions) :
            /\ ret.predictions[i].overall_confidence >= args.min_confidence
            /\ RiskRank(ret.predictions[i].risk_level) <= RiskRank(args.max_risk)

\* a response built by generate_sample_predictions is held in ret
GeneratedResponse == BestResponded /\ "real_options_count" \in DOMAIN ret

\* C26: the risk_level of a generated prediction is the more severe of its
\* volatility risk (HIGH above 0.40, MEDIUM above 0.28) and its time risk (HIGH
\* below 14 days, MEDIUM below 45) under LOW < MEDIUM < HIGH: HIGH whenever
\* either is HIGH, LOW only when both are LOW.
C26_RiskIsMoreSevere ==
    GeneratedResponse =>
        \A i \in 1..Len(ret.predictions) :
            LET p == ret.predictions[i]
                vol == IF p.implied_volatility > 4000 THEN 3
                       ELSE IF p.implied_volatility > 2800 THEN 2 ELSE 1
                time == IF p.days_to_expiry < 14 THEN 3
                        ELSE IF p.days_to_expiry < 45 THEN 2 ELSE 1
            IN  /\ RiskRank(p.risk_level) = Max(vol, time)
                /\ (vol = 3 \/ time = 3) => p.risk_level = "HIGH"
                /\ p.risk_level = "LOW" => (vol = 1 /\ time = 1)

(***************************************************************************)
(* connectors/price_verifier.py: OptionPriceVerifier.verify_option_price,  *)
(* lines 22-126.  The clock counts whole seconds.  A result is the record  *)
(* of lines 50-59 (prices in 1/10000, an absent value is 0, the percentage *)
(* is kept as the exact quotient), the cache maps a key to the record of   *)
(* lines 121-124.                                                          *)
(***************************************************************************)
SecondsPerDay == 86400

\* timedelta.seconds of later - earlier for later >= earlier: the seconds
\* field of the normalised (days, seconds) pair, not the total
timedelta_seconds(later, earlier) == (later - earlier) % SecondsPerDay

\* line 42: the f-string of the four arguments; the symbols, dates and kinds of
\* the model hold no underscore, so the key is the tuple
cache_key(symbol, strike, expiry, option_type) == <<symbol, strike, expiry, option_type>>

\* line 47
cache_fresh(clock, cached) == timedelta_seconds(clock, cached.timestamp) < 300

\* lines 45-48: the cached data, if the key is cached and the entry passes line 47
cache_lookup(cache, key, clock) ==
    IF key \in DOMAIN cache /\ cache_fresh(clock, cache[key])
    THEN [hit |-> TRUE, data |-> cache[key].data]
    ELSE [hit |-> FALSE]

\* lines 50-59
empty_result(expected_price, clock) ==
    [verified |-> FALSE, live_price |-> 0, expected_price |-> expected_price,
     difference |-> 0, difference_pct |-> Rat(0, 1), source |-> "",
     timestamp |-> clock, error |-> ""]

\* lines 88-98: a matching strike with its lastPrice
verified_result(expected_price, live_price, clock) ==
    [empty_result(expected_price, clock) EXCEPT
        !.verified = TRUE,
        !.live_price = live_price,
        !.source = "Yahoo Finance",
        !.difference = IF expected_price # 0 THEN live_price - expected_price ELSE 0,
        !.difference_pct = IF expected_price > 0
                           THEN Rat((live_price - expected_price) * 100, expected_price)
                           ELSE Rat(0, 1)]

\* lines 61-118: what the query of the market leaves in result.  answer is
\* "unavailable" (line 67), "found" (line 88), "no strike" (line 112) or
\* "exception" (line 116)
query_result(answer, expected_price, live_price, clock) ==
    CASE answer = "found" -> verified_result(expected_price, live_price, clock)
      [] answer = "unavailable" ->
            [empty_result(expected_price, clock) EXCEPT !.error = "Expiry not available"]
      [] answer = "no strike" ->
            [empty_result(expected_price, clock) EXCEPT !.error = "Strike not found in option chain"]
      [] answer = "exception" ->
            [empty_result(expected_price, clock) EXCEPT !.error = "exception"]

\* lines 67-70 and 120-124: the return of line 70 leaves the cache as it is,
\* every other result is stored under the key with the clock
cache_after_query(cache, key, answer, result, clock) ==
    IF answer = "unavailable" THEN cache
    ELSE [k \in DOMAIN cache \cup {key} |->
             IF k = key THEN [data |-> result, timestamp |-> clock] ELSE cache[k]]

(***************************************************************************)
(* SpecVerifier: calls of verify_option_price on one OptionPriceVerifier   *)
(* (held in predictor) while seconds, minutes and days pass.  locals       *)
(* records of the last call whether it was answered from the cache and how *)
(* old the entry of its key was.                                           *)
(***************************************************************************)
MaxElapses == 3

MaxVerifications == 2

ElapsedSeconds == {1, 299, SecondsPerDay}

OptionPriceVerifier == [verification_cache |-> <<>>]

VerifyArgs ==
    [symbol : {"AAPL"}, strike : {1900000}, expiry : {38}, option_type : {"CALL", "PUT"},
     expected_price : {0, 35000}]

InitVerifier ==
    /\ pc = "idle"
    /\ now = 0
    /\ predictor = OptionPriceVerifier
    /\ args = None
    /\ ret = None
    /\ locals = [elapses |-> 0, calls |-> 0, hit |-> FALSE, queried |-> FALSE, age |-> -1]
    /\ options_data = <<>>
    /\ idx = 0
    /\ predictions = <<>>
    /\ filtered = <<>>
    /\ database = EmptyDatabase
    /\ tasks = <<>>

\* time passes between two calls
Elapse ==
    /\ locals.elapses < MaxElapses
    /\ \E d \in ElapsedSeconds : now' = now + d
    /\ locals' = [locals EXCEPT !.elapses = @ + 1]
    /\ UNCHANGED <<pc, args, ret, options_data, idx, predictions, filtered, predictor, database, tasks>>

\* one call of verify_option_price, lines 22-126
VerifyOptionPrice ==
    /\ locals.calls < MaxVerifications
    /\ \E a \in VerifyArgs, answer \in {"found", "unavailable", "no strike", "exception"},
          live_price \in {34000, 36000} :
          LET cache  == predictor.verification_cache
              key    == cache_key(a.symbol, a.strike, a.expiry, a.option_type)
              cached == cache_lookup(cache, key, now)
              result == query_result(answer, a.expected_price, live_price, now)
          IN  /\ args' = a
              /\ locals' = [locals EXCEPT
                                !.calls = @ + 1,
                                !.hit = cached.hit,
                                !.queried = ~cached.hit,
                                !.age = IF key \in DOMAIN cache
                                        THEN now - cache[key].timestamp ELSE -1]
              /\ IF cached.hit
                 THEN /\ ret' = cached.data
                      /\ UNCHANGED predictor
                 ELSE /\ ret' = result
                      /\ predictor' = [verification_cache |->
                                          cache_after_query(cache, key, answer, result, now)]
    /\ UNCHANGED <<pc, now, options_data, idx, predictions, filtered, database, tasks>>

NextVerifier == Elapse \/ VerifyOptionPrice

SpecVerifier == InitVerifier /\ [][NextVerifier]_vars

\* a call of verify_option_price has returned
Verified == "calls" \in DOMAIN locals /\ locals.calls > 0

\* the key of the last call
LastKey == cache_key(args.symbol, args.strike, args.expiry, args.option_type)

\* C28: the verification cache expires after 5 minutes: a call is answered
\* from the cache only if the entry of its key was stored less than 300
\* seconds earlier; for an older entry, however old, the market is queried
\* again and the entry is replaced.
C28_CacheExpiresAfterFiveMinutes ==
    Verified =>
        /\ locals.hit => (locals.age >= 0 /\ locals.age < 300)
        /\ locals.age >= 300 =>
              /\ locals.queried
              /\ predictor.verification_cache[LastKey].timestamp = now
              /\ predictor.verification_cache[LastKey].data = ret

\* the part of C28 within the first day of an entry: answered from the cache
\* below 300 seconds, queried again from 300 seconds on
C28_WithinOneDay ==
    (Verified /\ locals.age >= 0 /\ locals.age < SecondsPerDay) =>
        (locals.hit <=> locals.age < 300) /\ (locals.queried <=> locals.age >= 300)

(***************************************************************************)
(* connectors/multi_provider.py: MultiProviderDataFetcher, lines 21-191.   *)
(* The clock counts whole seconds.  A price record keeps the price (in     *)
(* 1/10000) and the source; None is the value None.  get_current_price is  *)
(* the method wrapped by functools.lru_cache (line 34): the instance holds *)
(* the dictionary self.cache of line 31 and, as lru, the entries of the    *)
(* wrapper in order of use, each with the second its value was computed.   *)
(***************************************************************************)
\* lines 25-30, by the 'source' each provider writes
providers == <<"Yahoo Finance", "Finnhub.io", "Alpha Vantage", "Twelve Data">>

\* line 32, in seconds
cache_duration == 30 * 60

\* line 34
lru_maxsize == 1000

MultiProviderDataFetcher == [cache |-> <<>>, lru |-> <<>>]

\* line 41: the symbol and the minute of the clock (strftime '%Y-%m-%d-%H-%M')
price_cache_key(symbol, clock) == <<symbol, clock \div 60>>

\* lines 49-62: the index of the first provider whose answer has a price > 0,
\* or 0; answers[i] is the price provider i returns, 0 for None
first_provider(answers) ==
    IF \E i \in 1..Len(providers) : answers[i] > 0
    THEN CHOOSE i \in 1..Len(providers) :
             answers[i] > 0 /\ \A j \in 1..(i - 1) : answers[j] <= 0
    ELSE 0

\* lines 40-65, the body of get_current_price: the value returned, the
\* providers called and the dictionary afterwards
get_current_price_body(cache, symbol, answers, clock) ==
    LET key == price_cache_key(symbol, clock)
        k   == first_provider(answers)
    IN  IF key \in DOMAIN cache /\ clock - cache[key].timestamp < cache_duration
        THEN [value |-> cache[key].data, tried |-> <<>>, cache |-> cache,
              obtained |-> cache[key].timestamp]
        ELSE IF k = 0
        THEN [value |-> None, tried |-> providers, cache |-> cache, obtained |-> clock]
        ELSE [value |-> [price |-> answers[k], source |-> providers[k]],
              tried |-> SubSeq(providers, 1, k),
              cache |-> [x \in DOMAIN cache \cup {key} |->
                            IF x = key
                            THEN [data |-> [price |-> answers[k], source |-> providers[k]],
                                  timestamp |-> clock]
                            ELSE cache[x]],
              obtained |-> clock]

\* the entry of the lru wrapper for a symbol, or 0
lru_index(lru, symbol) ==
    IF \E i \in 1..Len(lru) : lru[i].key = symbol
    THEN CHOOSE i \in 1..Len(lru) : lru[i].key = symbol
    ELSE 0

\* a hit moves the entry to the most recently used end
lru_touch(lru, i) == SubSeq(lru, 1, i - 1) \o SubSeq(lru, i + 1, Len(lru)) \o <<lru[i]>>

\* a miss appends the computed value, None included, and drops the least
\* recently used entry beyond maxsize
lru_store(lru, entry) ==
    IF Len(lru) >= lru_maxsize THEN Append(Tail(lru), entry) ELSE Append(lru, entry)

\* line 34 around lines 35-65: one call fetcher.get_current_price(symbol)
get_current_price(fetcher, symbol, answers, clock) ==
    LET i == lru_index(fetcher.lru, symbol)
        b == get_current_price_body(fetcher.cache, symbol, answers, clock)
    IN  IF i > 0
        THEN [value |-> fetcher.lru[i].value, tried |-> <<>>,
              obtained |-> fetcher.lru[i].obtained,
              fetcher |-> [fetcher EXCEPT !.lru = lru_touch(fetcher.lru, i)]]
        ELSE [value |-> b.value, tried |-> b.tried, obtained |-> b.obtained,
              fetcher |-> [cache |-> b.cache,
                           lru |-> lru_store(fetcher.lru,
                                       [key |-> symbol, value |-> b.value,
                                        obtained |-> b.obtained])]]

\* lines 187-191
clear_cache(fetcher) == [cache |-> <<>>, lru |-> <<>>]

(***************************************************************************)
(* SpecFetcher: calls of get_current_price and clear_cache on the global   *)
(* fetcher (held in predictor) while seconds, half hours and hours pass.   *)
(* locals records of the last call the providers it called and how long    *)
(* before the call the returned value was obtained from them.              *)
(***************************************************************************)
MaxWaits == 3

MaxFetches == 3

WaitedSeconds == {1, 1799, 3600}

\* what the four providers answer to one call: nothing, Yahoo alone, Finnhub
\* alone, Twelve Data alone, or Yahoo and Alpha Vantage with different prices
ProviderAnswers ==
    {<<0, 0, 0, 0>>, <<1855000, 0, 0, 0>>, <<0, 1856000, 0, 0>>,
     <<0, 0, 0, 1857000>>, <<1858000, 0, 1859000, 0>>}

InitFetcher ==
    /\ pc = "idle"
    /\ now = 0
    /\ predictor = MultiProviderDataFetcher
    /\ args = None
    /\ ret = None
    /\ locals = [waits |-> 0, fetches |-> 0, tried |-> <<>>, age |-> 0, known |-> -1]
    /\ options_data = <<>>
    /\ idx = 0
    /\ predictions = <<>>
    /\ filtered = <<>>
    /\ database = EmptyDatabase
    /\ tasks = <<>>

\* time passes between two calls
Wait ==
    /\ locals.waits < MaxWaits
    /\ \E d \in WaitedSeconds : now' = now + d
    /\ locals' = [locals EXCEPT !.waits = @ + 1]
    /\ UNCHANGED <<pc, args, ret, options_data, idx, predictions, filtered, predictor, database, tasks>>

\* one call of get_current_price, lines 34-65; known is the second at which a
\* value for the symbol was last obtained before the call, or -1
GetCurrentPrice ==
    /\ locals.fetches < MaxFetches
    /\ \E symbol \in {"AAPL", "MSFT"}, answers \in ProviderAnswers :
          LET call == get_current_price(predictor, symbol, answers, now)
              i    == lru_index(predictor.lru, symbol)
          IN  /\ args' = [symbol |-> symbol]
              /\ ret' = call.value
              /\ predictor' = call.fetcher
              /\ locals' = [locals EXCEPT
                                !.fetches = @ + 1,
                                !.tried = call.tried,
                                !.age = now - call.obtained,
                                !.known = IF i > 0 THEN predictor.lru[i].obtained ELSE -1]
    /\ UNCHANGED <<pc, now, options_data, idx, predictions, filtered, database, tasks>>

\* clear_cache, lines 187-191
ClearCache ==
    /\ "lru" \in DOMAIN predictor
    /\ predictor.lru # <<>>
    /\ predictor' = clear_cache(predictor)
    /\ UNCHANGED <<pc, now, args, locals, ret, options_data, idx, predictions, filtered, database, tasks>>

NextFetcher == Wait \/ GetCurrentPrice \/ ClearCache

SpecFetcher == InitFetcher /\ [][NextFetcher]_vars

\* a call of get_current_price has returned
Fetched == "fetches" \in DOMAIN locals /\ locals.fetches > 0

\* C29: the price cache lasts 30 minutes: get_current_price never returns a
\* price or a None that was obtained from the providers more than 30 minutes
\* earlier; a call made later than that queries the providers again, in the
\* order Yahoo, Finnhub, Alpha Vantage, Twelve Data.
C29_PriceCacheLastsThirtyMinutes ==
    Fetched =>
        /\ locals.age <= cache_duration
        /\ (locals.known >= 0 /\ now - locals.known > cache_duration) =>
              /\ locals.tried # <<>>
              /\ locals.tried = SubSeq(providers, 1, Len(locals.tried))
              /\ locals.tried[1] = "Yahoo Finance"

\* the part of C29 about the order: whenever providers are called, they are
\* called in the order of the list, up to the first one with a price
C29_ProvidersInOrder ==
    Fetched =>
        /\ locals.tried = SubSeq(providers, 1, Len(locals.tried))
        /\ locals.tried # <<>> =>
              IF ret = None THEN locals.tried = providers
              ELSE ret.source = locals.tried[Len(locals.tried)]

(***************************************************************************)
(* options_api.py: get_next_option_expiry_dates, lines 445-462.  A date is *)
(* the number of days since 1970-01-01 (a Thursday); the string written by *)
(* strftime('%Y-%m-%d') is the record of its year, month and day.          *)
(***************************************************************************)
\* datetime.weekday(): Monday is 0, Friday is 4
weekday(date) == (date + 3) % 7

\* the Gregorian calendar date of a day number, from the day of the 400-year
\* era (doe), the year of the era (yoe), the day of the year counted from
\* 1 March (doy) and the month counted from March (mp)
civil_from_mp(year, doy, mp) ==
    [year  |-> IF mp < 10 THEN year ELSE year + 1,
     month |-> IF mp < 10 THEN mp + 3 ELSE mp - 9,
     day   |-> doy - (153 * mp + 2) \div 5 + 1]

civil_from_doy(year, doy) == civil_from_mp(year, doy, (5 * doy + 2) \div 153)

civil_from_yoe(era, doe, yoe) ==
    civil_from_doy(yoe + era * 400, doe - (365 * yoe + yoe \div 4 - yoe \div 100))

civil_from_doe(era, doe) ==
    civil_from_yoe(era, doe,
        (doe - doe \div 1460 + doe \div 36524 - doe \div 146096) \div 365)

\* line 460: expiry_date.strftime('%Y-%m-%d')
strftime(date) ==
    civil_from_doe((date + 719468) \div 146097, (date + 719468) % 146097)

\* the day number of the year (counted from March), month and day
days_from_march_year(y, m, d) ==
    (y \div 400) * 146097 + (y % 400) * 365 + (y % 400) \div 4 - (y % 400) \div 100
        + (153 * (IF m > 2 THEN m - 3 ELSE m + 9) + 2) \div 5 + d - 1 - 719468

\* line 833: datetime.strptime(expiry, '%Y-%m-%d'), as a day number
strptime(s) ==
    days_from_march_year(IF s.month <= 2 THEN s.year - 1 ELSE s.year, s.month, s.day)

\* lines 451-453
days_ahead(current_date) ==
    IF 4 - weekday(current_date) <= 0
    THEN 4 - weekday(current_date) + 7
    ELSE 4 - weekday(current_date)

\* lines 445-462; clock is the value datetime.now() returns at line 448, in
\* ticks (the time of day is carried along and dropped by strftime)
get_next_option_expiry_dates(clock) ==
    LET current_date == clock \div TicksPerDay
        next_friday  == current_date + days_ahead(current_date)
    IN  [i \in 1..6 |-> strftime(next_friday + 7 * (i - 1))]

(***************************************************************************)
(* SpecExpiry: generate_sample_predictions asks for the expiry dates (line *)
(* 812) on any day of a range that holds the end of a year and a 29th of   *)
(* February, in the morning or in the afternoon, and looks up contracts of *)
(* the US and of the India samples with them (lines 815-818).              *)
(***************************************************************************)
\* 2027-12-20
FirstDate == 21172

MaxStartDates == 80

InitExpiry ==
    /\ pc = "generate_sample_predictions:812"
    /\ now \in (FirstDate * TicksPerDay)..((FirstDate + MaxStartDates) * TicksPerDay - 1)
    /\ args \in [market : {"US", "INDIA"}]
    /\ ret = None
    /\ locals = None
    /\ options_data = <<>>
    /\ idx = 0
    /\ predictions = <<>>
    /\ filtered = <<>>
    /\ predictor = OptionsPredictor
    /\ database = EmptyDatabase
    /\ tasks = <<>>

\* line 812: the one list of dates is used for the samples of both markets
GetNextOptionExpiryDates ==
    /\ pc = "generate_sample_predictions:812"
    /\ ret' = get_next_option_expiry_dates(now)
    /\ pc' = "generate_sample_predictions:815"
    /\ UNCHANGED <<now, args, locals, options_data, idx, predictions, filtered, predictor, database, tasks>>

NextExpiry == GetNextOptionExpiryDates

SpecExpiry == InitExpiry /\ [][NextExpiry]_vars

\* the dates have been returned
ExpiryDatesReturned == pc = "generate_sample_predictions:815"

\* C30: the dates returned are the next expiration dates of the contracts they
\* are used for, Fridays for US contracts and Thursdays for India contracts:
\* six dates, ascending and 7 days apart, each strictly after the current
\* date (one week ahead when today is the expiration weekday).
C30_NextExpiryDates ==
    ExpiryDatesReturned =>
        LET today == now \div TicksPerDay
            expiration_weekday == IF args.market = "INDIA" THEN 3 ELSE 4
        IN  /\ Len(ret) = 6
            /\ \A i \in 1..6 : weekday(strptime(ret[i])) = expiration_weekday
            /\ \A i \in 1..5 : strptime(ret[i + 1]) = strptime(ret[i]) + 7
            /\ strptime(ret[1]) > today
            /\ strptime(ret[1]) <= today + 7

\* the part of C30 that does not depend on the market: six Fridays, 7 days
\* apart, the first one 1 to 7 days after today
C30_SixFridays ==
    ExpiryDatesReturned =>
        LET today == now \div TicksPerDay
        IN  /\ Len(ret) = 6
            /\ \A i \in 1..6 : weekday(strptime(ret[i])) = 4
            /\ \A i \in 1..5 : strptime(ret[i + 1]) = strptime(ret[i]) + 7
            /\ strptime(ret[1]) > today
            /\ strptime(ret[1]) <= today + 7
            /\ weekday(today) = 4 => strptime(ret[1]) = today + 7

====
